---------------------------- MODULE Spec2Model ----------------------------
(*
 * A model of btr::subprocess (vector-of-bool/batteries): spawning a child with
 * routed standard streams, the handle's lifecycle (running -> joined/detached),
 * and reading the child's output.
 *
 * Three specifications share this module:
 *   Spec     the handle lifecycle: spawn, join, is_running, detach, move,
 *            destruction, over a kernel process table;
 *   SpecIO   subprocess::read_output over the stdout/stderr pipes;
 *   SpecFd   descriptor tables of the parent and its children around spawn,
 *            write_input and close_stdin.
 * neo_assert / neo_assert_always are modelled as fatal: a failed assertion sets
 * 'fault' and the program takes no further step.
 *)
EXTENDS Integers, Sequences, FiniteSets, TLC

\* ------------------------------------------------------------------ bounds
NSlots == 2          \* subprocess objects the caller holds at once
MaxSpawn == 1        \* spawn() calls in one run

Slots == 1..NSlots
Impls == 1..MaxSpawn
ExitCodes == {0, 42}
Signals == {15}
Platforms == {"posix", "win"}

\* ------------------------------------------------------------ value types
\* std::optional<subprocess_exit>, has = has_value()
NoExit == [has |-> FALSE, exit_code |-> 0, signal_number |-> 0]
subprocess_exit(code, signo) == [has |-> TRUE, exit_code |-> code, signal_number |-> signo]

successful_ExitCodeOnly(e) == e.exit_code = 0
successful(e) == e.signal_number = 0 /\ e.exit_code = 0

\* The exception subprocess_failure(exit_code, signo) constructs
NoFailure == [_exit_code |-> 0, _signal_number |-> 0, what |-> "none"]
subprocess_failure(exit_code, signo) ==
    [_exit_code |-> exit_code, _signal_number |-> signo,
     what |-> IF signo # 0 THEN "Subprocess was terminated by signal"
              ELSE "Subprocess exited"]

\* subprocess_exit::throw_if_error
throw_if_error(e) ==
    IF ~successful(e)
    THEN [thrown |-> TRUE, failure |-> subprocess_failure(e.exit_code, e.signal_number)]
    ELSE [thrown |-> FALSE, failure |-> NoFailure]

\* a subprocess object: _impl = 0 is nullptr, otherwise the index of its impl
NoObject == [alive |-> FALSE, _impl |-> 0, _exit_result |-> NoExit]

is_joined(s) == s._exit_result.has

\* ------------------------------------------------- the launch (POSIX child)
\* What the file system holds: paths that exist and can be executed, paths that
\* exist but cannot, and directories that exist.
Executables == {"good"}
NotExecutable == {"noexec"}
Directories == {"cwd", "okdir"}

\* exec's argument: strings[0], the first command element, or NULL when the
\* command is empty (the vector then holds only the terminating nullptr)
exec_path(opts) == IF Len(opts.command) > 0 THEN opts.command[1] ELSE "NULL"

\* errno of chdir(workdir), "ok" on success
chdir_errno(opts) ==
    LET workdir == IF opts.working_directory = "none" THEN "cwd" ELSE opts.working_directory
    IN  IF workdir \in Directories THEN "ok" ELSE "ENOENT"

\* errno of execvp/execv, "ok" on success
exec_errno(opts) ==
    LET p == exec_path(opts)
    IN  IF p = "NULL" THEN "EFAULT"
        ELSE IF p \in Executables THEN "ok"
        ELSE IF p \in NotExecutable THEN "EACCES"
        ELSE "ENOENT"

\* The streams for which the child holds an open descriptor to dup2
stdin_reader_open(opts) == opts.stdin_ \in {"pipe", "file", "null"}
stdout_writer_open(opts) == opts.stdout_ \in {"pipe", "file", "null"}
stderr_writer_open(opts) == opts.stderr_ \in {"pipe", "file", "null"}
stderr_to_stdout(opts) == opts.stderr_ = "to_stdout"

\* The child's steps after fork, in order, each with its errno ("ok" = success).
\* os.dup2 names the dup2 call the OS fails, if any.
child_steps(opts, os) ==
    LET d(name) == IF os.dup2 = name THEN "EBADF" ELSE "ok"
    IN  (IF stdin_reader_open(opts) THEN << <<"dup2_stdin", d("dup2_stdin")>> >> ELSE << >>)
     \o (IF stdout_writer_open(opts) THEN << <<"dup2_stdout", d("dup2_stdout")>> >> ELSE << >>)
     \o (IF stderr_writer_open(opts) THEN << <<"dup2_stderr", d("dup2_stderr")>> >> ELSE << >>)
     \o (IF stderr_to_stdout(opts) THEN << <<"dup2_merge", d("dup2_merge")>> >> ELSE << >>)
     \o << <<"chdir", chdir_errno(opts)>>, <<"exec", exec_errno(opts)>> >>

\* Index of the first failing step, 0 when every step succeeds
RECURSIVE first_failure(_, _)
first_failure(steps, i) ==
    IF i > Len(steps) THEN 0
    ELSE IF steps[i][2] # "ok" THEN i
    ELSE first_failure(steps, i + 1)

\* child_fail: what the child writes into the error pipe before _Exit(-1):
\* the errno, then the message. Nothing is written when exec succeeds.
child_payload(opts, os) ==
    LET steps == child_steps(opts, os)
        k == first_failure(steps, 1)
    IN  IF k = 0 THEN << >> ELSE << steps[k][2], steps[k][1] >>

\* throw_if_error_on_pipe: a zero-length read is "no error", anything else is
\* thrown as a system_error carrying the errno that was read
throw_if_error_on_pipe_NoThrow(payload) == [thrown |-> FALSE, err |-> "none"]
throw_if_error_on_pipe(payload) ==
    IF Len(payload) = 0 THEN [thrown |-> FALSE, err |-> "none"]
    ELSE [thrown |-> TRUE, err |-> payload[1]]

\* std::system_category: the generic condition an OS error code compares equal to
errc(err) ==
    CASE err \in {"ENOENT", "ERROR_FILE_NOT_FOUND", "ERROR_PATH_NOT_FOUND"} -> "no_such_file_or_directory"
      [] err \in {"EACCES", "ERROR_ACCESS_DENIED"} -> "permission_denied"
      [] err \in {"EAGAIN"} -> "resource_unavailable_try_again"
      [] err \in {"ENOMEM", "ERROR_NOT_ENOUGH_MEMORY"} -> "not_enough_memory"
      [] OTHER -> "other"


\* ---------------------------------------------------------------- spawn
\* The platform's process-creation call given what the OS answers:
\* os.fork is "ok" or the errno of a failed fork()/CreateProcessW().
\* POSIX subprocess::spawn, as seen by the caller.
\*   kind   "handle" (a subprocess is returned), "raise" (system_error),
\*          "assert" (neo_assert(expects) failed)
\*   pid    imp->pid of the returned handle: the forked child, or -1
\*   child  what became of the forked child: "none" (no child), "exec" (it runs
\*          the program), "failed" (child_fail: _Exit(-1))
spawn_posix(opts, os, newpid) ==
    IF opts.program = "none" /\ Len(opts.command) = 0
    THEN [kind |-> "assert", err |-> "none", pid |-> 0, child |-> "none", step |-> "none"]
    ELSE IF os.pipe # "ok"
    THEN [kind |-> "raise", err |-> os.pipe, pid |-> 0, child |-> "none", step |-> "pipe"]
    ELSE IF os.open # "ok" /\ "file" \in {opts.stdin_, opts.stdout_, opts.stderr_}
    THEN [kind |-> "raise", err |-> os.open, pid |-> 0, child |-> "none", step |-> "open"]
    ELSE
    LET child_pid == IF os.fork = "ok" THEN newpid ELSE 0 - 1
        \* with no child the only writer is the parent's own, closed before the read
        payload == IF os.fork = "ok" THEN child_payload(opts, os) ELSE << >>
        steps == child_steps(opts, os)
        k == first_failure(steps, 1)
        t == throw_if_error_on_pipe(payload)
        child == IF os.fork # "ok" THEN "none" ELSE IF k = 0 THEN "exec" ELSE "failed"
        step == IF os.fork # "ok" THEN "fork" ELSE IF k = 0 THEN "none" ELSE steps[k][1]
    IN  \* child_pid != 0: the parent's branch, taken for -1 as well
        IF t.thrown
        THEN [kind |-> "raise", err |-> t.err, pid |-> child_pid, child |-> child, step |-> step]
        ELSE [kind |-> "handle", err |-> "none", pid |-> child_pid, child |-> child, step |-> step]

\* GetLastError() after a failed CreateProcessW
CreateProcessW_error(program, opts, os) ==
    IF os.fork # "ok" THEN "ERROR_NOT_ENOUGH_MEMORY"
    ELSE IF program \in NotExecutable THEN "ERROR_BAD_EXE_FORMAT"
    ELSE IF program \notin Executables THEN "ERROR_FILE_NOT_FOUND"
    ELSE IF chdir_errno(opts) # "ok" THEN "ERROR_DIRECTORY"
    ELSE "ok"

\* Windows subprocess::spawn
spawn_win(opts, os, newpid) ==
    IF opts.program = "none" /\ Len(opts.command) = 0
    THEN [kind |-> "assert", err |-> "none", pid |-> 0, child |-> "none", step |-> "none"]
    ELSE
    \* path_lookup() names a file only when one exists on PATH and otherwise
    \* returns the name it was given: which names exist is the Executables set
    LET program == IF opts.program # "none" THEN opts.program ELSE opts.command[1]
        e == CreateProcessW_error(program, opts, os)
    IN  IF os.pipe # "ok" /\ "pipe" \in {opts.stdout_, opts.stderr_}
        THEN [kind |-> "raise", err |-> "ERROR_TOO_MANY_OPEN_FILES", pid |-> 0, child |-> "none", step |-> "pipe"]
        ELSE IF os.open # "ok" /\ "file" \in {opts.stdout_, opts.stderr_}
        THEN [kind |-> "raise", err |-> "ERROR_ACCESS_DENIED", pid |-> 0, child |-> "none", step |-> "open"]
        ELSE IF e # "ok"
        THEN [kind |-> "raise", err |-> e, pid |-> 0, child |-> "none",
              step |-> IF os.fork # "ok" THEN "fork" ELSE "exec"]
        ELSE [kind |-> "handle", err |-> "none", pid |-> newpid, child |-> "exec", step |-> "none"]

spawn(plat, opts, os, newpid) ==
    IF plat = "posix" THEN spawn_posix(opts, os, newpid) ELSE spawn_win(opts, os, newpid)

\* --------------------------------------------------------- kernel: waitid
NoProc == [st |-> "none", si_code |-> "none", si_status |-> 0]

\* ::waitid(P_PID, pid, &info, options) on a child that is not running (the
\* call on a running child returns at once with WNOHANG and blocks without).
\* kp is the process table; the result carries the table after the call.
waitid(kp, pid, options) ==
    IF pid \notin DOMAIN kp \/ kp[pid].st \in {"none", "reaped"}
    THEN [rc |-> 0 - 1, errno |-> "ECHILD", si_pid |-> 0, si_code |-> "none", si_status |-> 0, kp |-> kp]
    ELSE IF kp[pid].st = "running"
    THEN [rc |-> 0, errno |-> "none", si_pid |-> 0, si_code |-> "none", si_status |-> 0, kp |-> kp]
    ELSE [rc |-> 0, errno |-> "none", si_pid |-> pid,
          si_code |-> kp[pid].si_code, si_status |-> kp[pid].si_status,
          kp |-> IF "WNOWAIT" \in options THEN kp
                 ELSE [kp EXCEPT ![pid].st = "reaped"]]


\* ------------------------------------------------------ lifecycle: state
VARIABLES
    platform,    \* the backend the library was built for
    subs,        \* the caller's subprocess objects, by slot
    impl_pid,    \* impl::pid of each impl the spawns allocated
    impl_live,   \* whether the impl is still allocated (not deleted)
    kproc,       \* the kernel's record of each child process
    nspawn,      \* spawn() calls made so far
    fault,       \* "none", or the fatal condition that ended the program
    last,        \* the operation just performed and what it returned
    life,        \* per slot, the lifecycle state the contract speaks of
    joins,       \* per pid, the reaping waits join() has issued
    joinRet,     \* per pid, the exit status join() returned, if any
    signalled,   \* per pid, the signal send_signal() sent it while it ran (0: none)
    interrupted  \* per pid, whether a join() waiting for it was interrupted and none
                 \* has returned since

lifeVars == <<platform, subs, impl_pid, impl_live, kproc, nspawn, fault, last, life, joins, joinRet,
              signalled, interrupted>>

\* ------------------------------------------------------ read_output: state
VARIABLES
    io_pc,       \* where the caller of read_output() is
    io_fn,       \* the call in progress or last made: read_output or read_output_into
    io_timeout,  \* the timeout of that call, in milliseconds
    poll_fds,    \* the pollfd array of the current _do_read_output, with revents
    pfd_i,       \* the index of the pollfd the for-loop handles next
    rd_open,     \* is_open() of impl::stdout_pipe and impl::stderr_pipe
    ret,         \* the subprocess_output read_output() accumulates
    wr_open,     \* whether the child still holds the write end of each pipe
    pbuf,        \* the bytes in flight in each pipe
    written,     \* every byte the child wrote to each stream, in order
    io_joined,   \* whether join() has returned on the handle
    io_errno,    \* the calling thread's errno
    fd_closes    \* per stream, the close() calls issued on its read descriptor

ioVars == <<io_pc, io_fn, io_timeout, poll_fds, pfd_i, rd_open, ret, wr_open, pbuf, written,
            io_joined, io_errno, fd_closes>>

\* ------------------------------------------------- descriptor tables: state
VARIABLES
    fd_held,     \* per process, the pipe ends its descriptor table holds
    fd_child,    \* per child: "unborn", "running", "exited" or "failed"
    fd_opts,     \* per child, the options it was spawned with
    fd_spawned,  \* spawn() calls made so far
    stdin_buf,   \* the bytes in flight in each child's stdin pipe
    sent,        \* per child, the bytes write_input() accepted, in order
    got,         \* per child, the bytes it read from its standard input
    echoed,      \* per child, the bytes it wrote to its standard output
    fd_fault     \* "none", or the fatal condition that ended the caller

fdVars == <<fd_held, fd_child, fd_opts, fd_spawned, stdin_buf, sent, got, echoed, fd_fault>>

\* ------------------------------------------------- output redirection: state
VARIABLES
    f_pc,        \* "init", then "running", "exited", or "raised" when spawn() threw
    fs_file,     \* the file at the redirection path: whether it exists, and its bytes
    f_stdout,    \* the child's standard output: whether it is usable, and its file offset
    f_written,   \* every byte the child wrote to its standard output, in order
    f_pre        \* the file as it was before spawn()

fileVars == <<f_pc, fs_file, f_stdout, f_written, f_pre>>

\* -------------------------------------------------- argument quoting: state
VARIABLES
    q_pc,        \* "args", "quoted" or "split"
    q_args,      \* the argument list given
    q_line,      \* quote_argv_string(q_args)
    q_argv       \* the argument vector the child's runtime splits q_line into

quoteVars == <<q_pc, q_args, q_line, q_argv>>

\* ------------------------------------------------ concurrent spawns: state
VARIABLES
    c_pc,        \* per thread, where its spawn() is: "idle", "opened", "forked", "returned"
    c_opts,      \* per thread, the options it spawns with
    c_held,      \* per process, the pipe ends its descriptor table holds
    c_child      \* per child: "unborn", "forked", "running" or "exited"

conVars == <<c_pc, c_opts, c_held, c_child>>

\* ------------------------------------------------------ the launch: state
VARIABLES
    l_pc,        \* "options", "spawned", "raised" or "aborted"
    l_opts,      \* the options spawn() is called with
    l_parent,    \* the endpoints the returned handle holds
    l_child,     \* what the child was started as
    l_out        \* what the parent read from the child's pipes

launchVars == <<l_pc, l_opts, l_parent, l_child, l_out>>

\* ------------------------------------------- the received signal: state
VARIABLES
    S_received_signal,  \* the process-wide std::sig_atomic_t
    sig_pc,             \* "idle", or "tested" inside throw_if_signalled()
    sig_notes,          \* the numbers given to notify_received_signal(), in order
    sig_last            \* the last query and what it returned or threw

sigVars == <<S_received_signal, sig_pc, sig_notes, sig_last>>

\* ------------------------------------------------------- one pipe: state
VARIABLES
    p_reader,    \* "open" or "closed": pipe_pair::reader.is_open()
    p_writer,    \* "open" or "closed": pipe_pair::writer.is_open()
    p_buf,       \* the bytes the kernel holds for the pipe
    p_wrote,     \* every byte written so far, in order
    p_got,       \* every byte the reads returned so far, in order
    p_last,      \* the last operation and its result
    p_fault      \* "none", "assert" (neo_assert fired) or "raise"

pipeVars == <<p_reader, p_writer, p_buf, p_wrote, p_got, p_last, p_fault>>

\* What each part of the model leaves alone
nonLifeVars == <<ioVars, fdVars, fileVars, quoteVars, conVars, launchVars, sigVars, pipeVars>>
nonIOVars == <<lifeVars, fdVars, fileVars, quoteVars, conVars, launchVars, sigVars, pipeVars>>
nonFdVars == <<lifeVars, ioVars, fileVars, quoteVars, conVars, launchVars, sigVars, pipeVars>>
nonFileVars == <<lifeVars, ioVars, fdVars, quoteVars, conVars, launchVars, sigVars, pipeVars>>
nonQuoteVars == <<lifeVars, ioVars, fdVars, fileVars, conVars, launchVars, sigVars, pipeVars>>
nonConVars == <<lifeVars, ioVars, fdVars, fileVars, quoteVars, launchVars, sigVars, pipeVars>>
nonLaunchVars == <<lifeVars, ioVars, fdVars, fileVars, quoteVars, conVars, sigVars, pipeVars>>
nonSigVars == <<lifeVars, ioVars, fdVars, fileVars, quoteVars, conVars, launchVars, pipeVars>>
nonPipeVars == <<lifeVars, ioVars, fdVars, fileVars, quoteVars, conVars, launchVars, sigVars>>

\* The kill() a send_signal() made: the pid given and what it named
NoKill == [pid |-> 0, named |-> "none"]

NoLast == [op |-> "init", res |-> "none", err |-> "none", pre_life |-> "empty",
           step |-> "none", child |-> "none", exe |-> "none", failure |-> NoFailure,
           kill |-> NoKill]

\* The commands and options the caller spawns with
SpawnOptions ==
    [command: {<< >>, <<"good">>, <<"missing">>, <<"noexec">>},
     program: {"none"},
     working_directory: {"none", "nodir"},
     stdin_: {"null"},
     stdout_: {"inherit"},
     stderr_: {"inherit", "to_stdout"},
     env_path_lookup: {TRUE},
     set_group_leader: {FALSE}]

\* What the OS may answer during one spawn
OsAnswers ==
    [fork: {"ok", "EAGAIN"}, pipe: {"ok", "EMFILE"}, open: {"ok"},
     dup2: {"none", "dup2_merge"}]

LifeInit ==
    /\ platform \in Platforms
    /\ subs = [h \in Slots |-> NoObject]
    /\ impl_pid = [i \in Impls |-> 0]
    /\ impl_live = [i \in Impls |-> FALSE]
    /\ kproc = [p \in Impls |-> NoProc]
    /\ nspawn = 0
    /\ fault = "none"
    /\ last = NoLast
    /\ life = [h \in Slots |-> "empty"]
    /\ joins = [p \in Impls |-> 0]
    /\ joinRet = [p \in Impls |-> NoExit]
    /\ signalled = [p \in Impls |-> 0]
    /\ interrupted = [p \in Impls |-> FALSE]

\* A new object is placed in the lowest free slot (slots are interchangeable)
FreeSlot(h) == ~subs[h].alive /\ \A g \in Slots : g < h => subs[g].alive

\* auto proc = subprocess::spawn(opts): the returned prvalue initialises the
\* object in slot h (no move is made). A child that failed to launch has
\* called _Exit(-1) and is left as it is.
Spawn(h, opts, os) ==
    /\ fault = "none"
    /\ FreeSlot(h)
    /\ nspawn < MaxSpawn
    /\ LET n == nspawn + 1
           r == spawn(platform, opts, os, n)
       IN  /\ nspawn' = n
           /\ kproc' = [kproc EXCEPT ![n] =
                  CASE r.child = "exec" -> [st |-> "running", si_code |-> "none", si_status |-> 0]
                    [] r.child = "failed" -> [st |-> "zombie", si_code |-> "CLD_EXITED", si_status |-> 255]
                    [] OTHER -> NoProc]
           /\ IF r.kind = "handle"
              THEN /\ subs' = [subs EXCEPT ![h] = [alive |-> TRUE, _impl |-> n, _exit_result |-> NoExit]]
                   /\ impl_pid' = [impl_pid EXCEPT ![n] = r.pid]
                   /\ impl_live' = [impl_live EXCEPT ![n] = TRUE]
                   /\ life' = [life EXCEPT ![h] = "running"]
              ELSE UNCHANGED <<subs, impl_pid, impl_live, life>>
           /\ fault' = IF r.kind = "assert" THEN "expects" ELSE "none"
           /\ last' = [NoLast EXCEPT !.op = "spawn", !.res = r.kind, !.err = r.err,
                                     !.step = r.step, !.child = r.child,
                                     !.exe = exec_path(opts)]
    /\ UNCHANGED <<platform, signalled, interrupted, joins, joinRet>>
    /\ UNCHANGED nonLifeVars


\* The child process ends on its own: exit(code), or death by a signal
ChildTerminates(p, how, status) ==
    /\ fault = "none"
    /\ kproc[p].st = "running"
    /\ \/ how = "CLD_EXITED" /\ status \in ExitCodes
       \/ how \in {"CLD_KILLED", "CLD_DUMPED"} /\ status \in Signals /\ platform = "posix"
    /\ kproc' = [kproc EXCEPT ![p] = [st |-> "zombie", si_code |-> how, si_status |-> status]]
    /\ last' = [NoLast EXCEPT !.op = "child"]
    /\ UNCHANGED <<platform, signalled, interrupted, subs, impl_pid, impl_live, nspawn, fault, life, joins, joinRet>>
    /\ UNCHANGED nonLifeVars

\* ------------------------------------------------------------------ join
\* The exit result _do_join stores for a waitid() report
exit_from_siginfo_Both(si_code, si_status) == subprocess_exit(si_status, si_status)
exit_from_siginfo(si_code, si_status) ==
    IF si_code \in {"CLD_KILLED", "CLD_DUMPED"} THEN subprocess_exit(0, si_status)
    ELSE subprocess_exit(si_status, 0)

\* subprocess::_do_join once the wait returns (the child is not running):
\* res "ok" with the exit result, or "invariant" when neo_assert(invariant) fails
_do_join_ZeroExit(plat, kp, pid) ==
    IF plat = "posix"
    THEN LET w == waitid(kp, pid, {"WEXITED"})
         IN  IF w.rc < 0 \/ w.si_code \notin {"CLD_KILLED", "CLD_DUMPED", "CLD_EXITED"}
             THEN [res |-> "invariant", exit |-> NoExit, kp |-> w.kp]
             ELSE [res |-> "ok", exit |-> subprocess_exit(0, 0), kp |-> w.kp]
    ELSE [res |-> "ok", exit |-> subprocess_exit(0, 0), kp |-> kp]
_do_join(plat, kp, pid) ==
    IF plat = "posix"
    THEN LET w == waitid(kp, pid, {"WEXITED"})
         IN  IF w.rc < 0 \/ w.si_code \notin {"CLD_KILLED", "CLD_DUMPED", "CLD_EXITED"}
             THEN [res |-> "invariant", exit |-> NoExit, kp |-> w.kp]
             ELSE [res |-> "ok", exit |-> exit_from_siginfo(w.si_code, w.si_status), kp |-> w.kp]
    ELSE \* WaitForSingleObject, then GetExitCodeProcess: the process object stays
         [res |-> "ok", exit |-> subprocess_exit(kp[pid].si_status, 0), kp |-> kp]

\* The checks subprocess::join makes before _do_join
join_expects_ImplOnly(s) == s._impl # 0
join_expects(s) == s._impl # 0 /\ ~is_joined(s)

\* subprocess::join(), at the moment the blocking wait returns
Join(h) ==
    /\ fault = "none"
    /\ subs[h].alive
    /\ LET s == subs[h]
           pid == IF s._impl = 0 THEN 0 ELSE impl_pid[s._impl]
           base == [NoLast EXCEPT !.op = "join", !.pre_life = life[h]]
       IN  IF ~join_expects(s)
           THEN /\ fault' = "expects"
                /\ last' = [base EXCEPT !.res = "assert"]
                /\ UNCHANGED <<subs, kproc, life, joins, joinRet, interrupted>>
           ELSE /\ ~(pid \in DOMAIN kproc /\ kproc[pid].st = "running")
                /\ LET j == _do_join(platform, kproc, pid)
                   IN  /\ kproc' = j.kp
                       /\ joins' = IF pid \in DOMAIN joins THEN [joins EXCEPT ![pid] = @ + 1] ELSE joins
                       /\ IF j.res = "ok"
                          THEN /\ subs' = [subs EXCEPT ![h]._exit_result = j.exit]
                               /\ life' = [life EXCEPT ![h] = "joined"]
                               /\ joinRet' = IF joinRet[pid].has THEN joinRet
                                             ELSE [joinRet EXCEPT ![pid] = j.exit]
                               /\ interrupted' = IF pid \in DOMAIN interrupted
                                                 THEN [interrupted EXCEPT ![pid] = FALSE]
                                                 ELSE interrupted
                               /\ fault' = "none"
                               /\ last' = [base EXCEPT !.res = "ok"]
                          ELSE /\ fault' = "invariant"
                               /\ last' = [base EXCEPT !.res = "assert"]
                               /\ UNCHANGED <<subs, life, joinRet, interrupted>>
    /\ UNCHANGED <<platform, signalled, impl_pid, impl_live, nspawn>>
    /\ UNCHANGED nonLifeVars

\* btr::throw_for_signal(signum): the exception thrown. Every class derives
\* from signal_exception, which carries the signal number.
SIGHUP == 1
SIGINT == 2
SIGQUIT == 3
SIGTERM == 15

throw_for_signal(signum) ==
    [class |-> CASE signum = SIGINT -> "sigint_exception"
                 [] signum = SIGTERM -> "sigterm_exception"
                 [] signum = SIGQUIT -> "sigquit_exception"
                 [] signum = SIGHUP -> "sighup_exception"
                 [] OTHER -> "signal_exception",
     _signal_number |-> signum]

signal_exception_classes ==
    {"signal_exception", "terminating_signal_exception", "sigint_exception",
     "sigterm_exception", "sigquit_exception", "sighup_exception"}

\* What received_signal() may hold when a wait is interrupted: the number the
\* program's handler passed to notify_received_signal(), 0 if it passed none
ReceivedSignals == {0, SIGINT, SIGTERM}

\* _do_join when the blocking waitid() is interrupted by a signal delivered to
\* the caller: rc == -1 and errno == EINTR, and throw_for_signal() throws
_do_join_interrupted_Exits(received) ==
    [res |-> "ok", err |-> "none", exit |-> subprocess_exit(0, received), signum |-> received]
_do_join_interrupted(received) ==
    LET e == throw_for_signal(received)
    IN  [res |-> "raise", err |-> e.class, exit |-> NoExit, signum |-> e._signal_number]

JoinInterrupted(h, received) ==
    /\ fault = "none"
    /\ platform = "posix"
    /\ subs[h].alive
    /\ join_expects(subs[h])
    /\ LET pid == impl_pid[subs[h]._impl]
           j == _do_join_interrupted(received)
       IN  /\ pid \in DOMAIN kproc
           /\ kproc[pid].st = "running"
           /\ subs' = [subs EXCEPT ![h]._exit_result = j.exit]
           /\ life' = IF j.exit.has THEN [life EXCEPT ![h] = "joined"] ELSE life
           /\ interrupted' = [interrupted EXCEPT ![pid] = TRUE]
           /\ last' = [NoLast EXCEPT !.op = "join", !.res = j.res, !.err = j.err,
                                     !.pre_life = life[h],
                                     !.failure = [NoFailure EXCEPT !._signal_number = j.signum,
                                                                   !.what = "interrupted by a signal"]]
    /\ UNCHANGED <<platform, signalled, impl_pid, impl_live, kproc, nspawn, fault,
                   joins, joinRet>>
    /\ UNCHANGED nonLifeVars

\* ------------------------------------------------------------ is_running
\* subprocess::_do_is_running: res is "true", "false" or "throw"
_do_is_running_Exited(plat, kp, pid) ==
    [res |-> "false", kp |-> kp]
_do_is_running_Reaps(plat, kp, pid) ==
    IF plat = "posix"
    THEN LET w == waitid(kp, pid, {"WNOHANG", "WEXITED"})
         IN  IF w.rc # 0 THEN [res |-> "throw", kp |-> w.kp]
             ELSE IF w.si_pid # 0 THEN [res |-> "false", kp |-> w.kp]
             ELSE [res |-> "true", kp |-> w.kp]
    ELSE [res |-> IF kp[pid].st = "running" THEN "true" ELSE "false", kp |-> kp]
_do_is_running(plat, kp, pid) ==
    IF plat = "posix"
    THEN LET w == waitid(kp, pid, {"WNOHANG", "WEXITED", "WNOWAIT"})
         IN  IF w.rc # 0 THEN [res |-> "throw", kp |-> w.kp]
             ELSE IF w.si_pid # 0 THEN [res |-> "false", kp |-> w.kp]
             ELSE [res |-> "true", kp |-> w.kp]
    ELSE \* WaitForSingleObject(hProcess, 0) == WAIT_TIMEOUT
         [res |-> IF kp[pid].st = "running" THEN "true" ELSE "false", kp |-> kp]

\* subprocess::is_running() noexcept: !is_joined() and _do_is_running().
\* On a handle with no impl that is not joined this dereferences nullptr; an
\* error thrown by _do_is_running leaves a noexcept function: both are fatal.
IsRunning(h) ==
    /\ fault = "none"
    /\ subs[h].alive
    /\ LET s == subs[h]
           pid == IF s._impl = 0 THEN 0 ELSE impl_pid[s._impl]
           base == [NoLast EXCEPT !.op = "is_running", !.pre_life = life[h]]
       IN  IF is_joined(s)
           THEN /\ last' = [base EXCEPT !.res = "false"]
                /\ UNCHANGED <<kproc, fault>>
           ELSE IF s._impl = 0
           THEN /\ fault' = "crash"
                /\ last' = [base EXCEPT !.res = "crash"]
                /\ UNCHANGED kproc
           ELSE LET r == _do_is_running(platform, kproc, pid)
                IN  /\ kproc' = r.kp
                    /\ fault' = IF r.res = "throw" THEN "terminate" ELSE "none"
                    /\ last' = [base EXCEPT !.res = r.res]
    /\ UNCHANGED <<platform, signalled, interrupted, subs, impl_pid, impl_live, nspawn, life, joins, joinRet>>
    /\ UNCHANGED nonLifeVars


\* ------------------------------------------------------------ send_signal
\* ::kill(pid, signum) as the kernel answers it: a running child that does not
\* handle the signal dies of it; a zombie takes it without effect; there is no
\* such process once it was reaped
kill_AlsoExited(kp, pid, signum) ==
    IF pid \in DOMAIN kp /\ kp[pid].st \in {"running", "zombie"}
    THEN [rc |-> 0, errno |-> "none",
          kp |-> [kp EXCEPT ![pid] = [st |-> "zombie", si_code |-> "CLD_KILLED", si_status |-> signum]]]
    ELSE [rc |-> 0 - 1, errno |-> "ESRCH", kp |-> kp]
kill(kp, pid, signum) ==
    IF pid = 0 - 1
    THEN \* kill(-1, sig): every process the caller may signal
         [rc |-> 0, errno |-> "none",
          kp |-> [p \in DOMAIN kp |->
                     IF kp[p].st = "running"
                     THEN [st |-> "zombie", si_code |-> "CLD_KILLED", si_status |-> signum]
                     ELSE kp[p]]]
    ELSE IF pid \notin DOMAIN kp \/ kp[pid].st \in {"none", "reaped"}
    THEN [rc |-> 0 - 1, errno |-> "ESRCH", kp |-> kp]
    ELSE IF kp[pid].st = "running"
    THEN [rc |-> 0, errno |-> "none",
          kp |-> [kp EXCEPT ![pid] = [st |-> "zombie", si_code |-> "CLD_KILLED", si_status |-> signum]]]
    ELSE [rc |-> 0, errno |-> "none", kp |-> kp]

\* What the pid given to kill() names: "all" for -1, else the state of that child
kill_names(kp, pid) ==
    IF pid = 0 - 1 THEN "all" ELSE IF pid \in DOMAIN kp THEN kp[pid].st ELSE "none"

\* subprocess::_do_send_signal (POSIX), past its assertion: res "ok" or "raise"
_do_send_signal_NoKill(kp, pid, signum) == [res |-> "ok", err |-> "none", kp |-> kp]
_do_send_signal(kp, pid, signum) ==
    LET k == kill(kp, pid, signum)
    IN  [res |-> IF k.rc # 0 THEN "raise" ELSE "ok", err |-> k.errno, kp |-> k.kp]

\* subprocess::send_signal(signum) on the POSIX backend. The assertion reads
\* is_joined(); a handle with no impl then dereferences nullptr.
SendSignal(h, signum) ==
    /\ fault = "none"
    /\ platform = "posix"
    /\ subs[h].alive
    /\ LET s == subs[h]
           pid == IF s._impl = 0 THEN 0 ELSE impl_pid[s._impl]
           base == [NoLast EXCEPT !.op = "send_signal", !.pre_life = life[h]]
       IN  IF is_joined(s)
           THEN /\ fault' = "expects"
                /\ last' = [base EXCEPT !.res = "assert"]
                /\ UNCHANGED <<kproc, signalled>>
           ELSE IF s._impl = 0
           THEN /\ fault' = "crash"
                /\ last' = [base EXCEPT !.res = "crash"]
                /\ UNCHANGED <<kproc, signalled>>
           ELSE LET r == _do_send_signal(kproc, pid, signum)
                IN  /\ kproc' = r.kp
                    /\ last' = [base EXCEPT !.res = r.res, !.err = r.err,
                                             !.kill = IF r.res = "ok"
                                                      THEN [pid |-> pid, named |-> kill_names(kproc, pid)]
                                                      ELSE NoKill]
                    /\ signalled' = IF r.res = "ok" /\ pid \in DOMAIN kproc
                                       /\ kproc[pid].st = "running" /\ signalled[pid] = 0
                                    THEN [signalled EXCEPT ![pid] = signum]
                                    ELSE signalled
                    /\ UNCHANGED fault
    /\ UNCHANGED <<platform, interrupted, subs, impl_pid, impl_live, nspawn, life, joins, joinRet>>
    /\ UNCHANGED nonLifeVars

\* ------------------------------------------------ try_join, throw_if_error
\* subprocess::try_join(): if (!is_running()) join(); return exit_result().
\* res is "nullopt" or "ok" (the optional returned), or how the call died.
TryJoin(h) ==
    /\ fault = "none"
    /\ subs[h].alive
    /\ LET s == subs[h]
           pid == IF s._impl = 0 THEN 0 ELSE impl_pid[s._impl]
           base == [NoLast EXCEPT !.op = "try_join", !.pre_life = life[h]]
           \* is_running(): !is_joined() and _do_is_running()
           r == IF is_joined(s) THEN [res |-> "false", kp |-> kproc]
                ELSE IF s._impl = 0 THEN [res |-> "crash", kp |-> kproc]
                ELSE _do_is_running(platform, kproc, pid)
       IN  IF r.res \in {"crash", "throw"}
           THEN /\ fault' = IF r.res = "crash" THEN "crash" ELSE "terminate"
                /\ last' = [base EXCEPT !.res = fault']
                /\ kproc' = r.kp
                /\ UNCHANGED <<subs, life, joins, joinRet>>
           ELSE IF r.res = "true"
           THEN /\ last' = [base EXCEPT !.res = "nullopt"]
                /\ kproc' = r.kp
                /\ UNCHANGED <<fault, subs, life, joins, joinRet>>
           ELSE \* join()
                IF ~join_expects(s)
                THEN /\ fault' = "expects"
                     /\ last' = [base EXCEPT !.res = "assert"]
                     /\ kproc' = r.kp
                     /\ UNCHANGED <<subs, life, joins, joinRet>>
                ELSE LET j == _do_join(platform, r.kp, pid)
                     IN  /\ kproc' = j.kp
                         /\ joins' = IF pid \in DOMAIN joins
                                     THEN [joins EXCEPT ![pid] = @ + 1] ELSE joins
                         /\ IF j.res = "ok"
                            THEN /\ subs' = [subs EXCEPT ![h]._exit_result = j.exit]
                                 /\ life' = [life EXCEPT ![h] = "joined"]
                                 /\ joinRet' = IF joinRet[pid].has THEN joinRet
                                               ELSE [joinRet EXCEPT ![pid] = j.exit]
                                 /\ fault' = "none"
                                 /\ last' = [base EXCEPT !.res = "ok"]
                            ELSE /\ fault' = "invariant"
                                 /\ last' = [base EXCEPT !.res = "assert"]
                                 /\ UNCHANGED <<subs, life, joinRet>>
    /\ UNCHANGED <<platform, signalled, interrupted, impl_pid, impl_live, nspawn>>
    /\ UNCHANGED nonLifeVars

\* proc.join().throw_if_error(), the second call: on the exit result a
\* joined handle holds
ThrowIfError(h) ==
    /\ fault = "none"
    /\ subs[h].alive
    /\ is_joined(subs[h])
    /\ LET t == throw_if_error(subs[h]._exit_result)
       IN  last' = [NoLast EXCEPT !.op = "throw_if_error", !.pre_life = life[h],
                                  !.res = IF t.thrown THEN "raise" ELSE "ok",
                                  !.failure = t.failure]
    /\ UNCHANGED <<platform, signalled, interrupted, subs, impl_pid, impl_live, kproc, nspawn, fault,
                   life, joins, joinRet>>
    /\ UNCHANGED nonLifeVars

\* ------------------------------------------- detach, destruction and moves
\* subprocess::_terminate_if_unjoined: TRUE when neo_assert_always passes
_terminate_if_unjoined_Off(s) == TRUE
_terminate_if_unjoined(s) == s._impl = 0 \/ is_joined(s)

\* subprocess::_destroy: whether the object may go (ok), and whether _do_close
\* deletes an impl (close)
_destroy(s) ==
    IF s._impl # 0
    THEN [ok |-> _terminate_if_unjoined(s), close |-> TRUE]
    ELSE [ok |-> TRUE, close |-> FALSE]

\* subprocess::_do_close as it acts on the table of allocated impls
_do_close_Leak(live, s) == live
_do_close(live, s) ==
    IF s._impl \in DOMAIN live THEN [live EXCEPT ![s._impl] = FALSE] ELSE live

\* subprocess::detach(): _do_close, nothing else
Detach(h) ==
    /\ fault = "none"
    /\ subs[h].alive
    /\ impl_live' = _do_close(impl_live, subs[h])
    /\ subs' = [subs EXCEPT ![h]._impl = 0]
    /\ life' = [life EXCEPT ![h] = "detached"]
    /\ last' = [NoLast EXCEPT !.op = "detach", !.res = "ok",
                              !.pre_life = life[h]]
    /\ UNCHANGED <<platform, signalled, interrupted, impl_pid, kproc, nspawn, fault, joins, joinRet>>
    /\ UNCHANGED nonLifeVars

\* ~subprocess()
Destroy(h) ==
    /\ fault = "none"
    /\ subs[h].alive
    /\ LET s == subs[h]
           d == _destroy(s)
           base == [NoLast EXCEPT !.op = "destroy", !.pre_life = life[h]]
       IN  IF d.ok
           THEN /\ impl_live' = IF d.close THEN _do_close(impl_live, s) ELSE impl_live
                /\ subs' = [subs EXCEPT ![h] = NoObject]
                /\ life' = [life EXCEPT ![h] = "empty"]
                /\ last' = [base EXCEPT !.res = "ok"]
                /\ UNCHANGED fault
           ELSE /\ fault' = "terminate_unjoined"
                /\ last' = [base EXCEPT !.res = "terminate"]
                /\ UNCHANGED <<impl_live, subs, life>>
    /\ UNCHANGED <<platform, signalled, interrupted, impl_pid, kproc, nspawn, joins, joinRet>>
    /\ UNCHANGED nonLifeVars

\* dst = std::move(src): _destroy() on dst, then both fields are exchanged out
\* of src
MoveAssign(dst, src) ==
    /\ fault = "none"
    /\ dst # src
    /\ subs[dst].alive /\ subs[src].alive
    /\ LET s == subs[dst]
           d == _destroy(s)
           base == [NoLast EXCEPT !.op = "move_assign", !.pre_life = life[dst]]
       IN  IF d.ok
           THEN /\ impl_live' = IF d.close THEN _do_close(impl_live, s) ELSE impl_live
                /\ subs' = [subs EXCEPT ![dst] = [alive |-> TRUE, _impl |-> subs[src]._impl,
                                                  _exit_result |-> subs[src]._exit_result],
                                        ![src] = [alive |-> TRUE, _impl |-> 0, _exit_result |-> NoExit]]
                /\ life' = [life EXCEPT ![dst] = life[src], ![src] = "moved_from"]
                /\ last' = [base EXCEPT !.res = "ok"]
                /\ UNCHANGED fault
           ELSE /\ fault' = "terminate_unjoined"
                /\ last' = [base EXCEPT !.res = "terminate"]
                /\ UNCHANGED <<impl_live, subs, life>>
    /\ UNCHANGED <<platform, signalled, interrupted, impl_pid, kproc, nspawn, joins, joinRet>>
    /\ UNCHANGED nonLifeVars

\* subprocess dst(std::move(src)): the constructor body is *this = std::move(o)
\* with _impl not yet initialised. wild is what the uninitialised pointer holds:
\* FALSE for a null pointer, TRUE for anything else.
MoveConstruct(dst, src, wild) ==
    /\ fault = "none"
    /\ dst # src
    /\ FreeSlot(dst) /\ subs[src].alive
    /\ LET s == [alive |-> TRUE, _impl |-> IF wild THEN 0 - 1 ELSE 0, _exit_result |-> NoExit]
           d == _destroy(s)
           base == [NoLast EXCEPT !.op = "move_construct", !.pre_life = "empty"]
       IN  IF d.ok
           THEN /\ impl_live' = IF d.close THEN _do_close(impl_live, s) ELSE impl_live
                /\ subs' = [subs EXCEPT ![dst] = [alive |-> TRUE, _impl |-> subs[src]._impl,
                                                  _exit_result |-> subs[src]._exit_result],
                                        ![src] = [alive |-> TRUE, _impl |-> 0, _exit_result |-> NoExit]]
                /\ life' = [life EXCEPT ![dst] = life[src], ![src] = "moved_from"]
                /\ last' = [base EXCEPT !.res = "ok"]
                /\ UNCHANGED fault
           ELSE /\ fault' = "terminate_unjoined"
                /\ last' = [base EXCEPT !.res = "terminate"]
                /\ UNCHANGED <<impl_live, subs, life>>
    /\ UNCHANGED <<platform, signalled, interrupted, impl_pid, kproc, nspawn, joins, joinRet>>
    /\ UNCHANGED nonLifeVars

LifeNext ==
    \/ \E h \in Slots, opts \in SpawnOptions, os \in OsAnswers : Spawn(h, opts, os)
    \/ \E p \in Impls, how \in {"CLD_EXITED", "CLD_KILLED", "CLD_DUMPED"},
          status \in ExitCodes \cup Signals : ChildTerminates(p, how, status)
    \/ \E h \in Slots : Join(h)
    \/ \E h \in Slots : IsRunning(h)
    \/ \E h \in Slots, signum \in Signals : SendSignal(h, signum)
    \/ \E h \in Slots : TryJoin(h)
    \/ \E h \in Slots : ThrowIfError(h)
    \/ \E h \in Slots : Detach(h)
    \/ \E h \in Slots : Destroy(h)
    \/ \E dst \in Slots, src \in Slots : MoveAssign(dst, src)
    \/ \E dst \in Slots, src \in Slots, wild \in BOOLEAN : MoveConstruct(dst, src, wild)

\* The caller's signal handling: joins that a signal delivered to the caller
\* may interrupt, among the operations that create, poll and release a child
SigNext ==
    \/ \E h \in Slots, opts \in SpawnOptions, os \in OsAnswers : Spawn(h, opts, os)
    \/ \E p \in Impls, how \in {"CLD_EXITED", "CLD_KILLED", "CLD_DUMPED"},
          status \in ExitCodes \cup Signals : ChildTerminates(p, how, status)
    \/ \E h \in Slots : Join(h)
    \/ \E h \in Slots, received \in ReceivedSignals : JoinInterrupted(h, received)
    \/ \E h \in Slots : IsRunning(h)
    \/ \E h \in Slots : TryJoin(h)
    \/ \E h \in Slots : Detach(h)
    \/ \E h \in Slots : Destroy(h)


\* ---------------------------------------------------------- read_output
\* (POSIX backend) The parent reads the stdout and stderr pipes of one child
\* while the child writes to them and closes them.
MaxBytes == 3      \* bytes the child writes in all
PipeCap == 2       \* bytes a pipe holds before a write to it blocks
ReadChunk == 2     \* bytes one read() asks for (it asks for 1024)
Bytes == {"a", "b"}
Streams == {"out", "err"}

Min(a, b) == IF a < b THEN a ELSE b

has_stdout(rd) == rd["out"]
has_stderr(rd) == rd["err"]

\* The pollfd array _do_read_output builds, before poll() fills revents in
pollfd_array(rd) ==
    (IF has_stdout(rd) THEN <<[fd |-> "out", revents |-> {}]>> ELSE << >>)
    \o (IF has_stderr(rd) THEN <<[fd |-> "err", revents |-> {}]>> ELSE << >>)

\* What poll() reports for the read end of a pipe: POLLIN when bytes are
\* waiting, POLLHUP when no write end is left; at end-of-file some systems
\* report POLLIN as well (eof_in)
revents_of(buf, wopen, eof_in) ==
    (IF buf # << >> \/ (eof_in /\ ~wopen) THEN {"POLLIN"} ELSE {})
    \cup (IF ~wopen THEN {"POLLHUP"} ELSE {})

poll(fds, bufs, wopen, eof_in) ==
    [i \in DOMAIN fds |->
        [fd |-> fds[i].fd, revents |-> revents_of(bufs[fds[i].fd], wopen[fds[i].fd], eof_in)]]

\* The output buffer a chunk is appended to
read_target_AlwaysStdout(is_stdout) == "stdout_"
read_target(is_stdout) == IF is_stdout THEN "stdout_" ELSE "stderr_"

\* The condition of the while loop of subprocess::read_output
read_output_continues(rd) == has_stdout(rd) \/ has_stderr(rd)

IOInit ==
    /\ io_pc = "idle"
    /\ io_fn = "none"
    /\ io_timeout = 0 - 1
    /\ poll_fds = << >>
    /\ pfd_i = 1
    /\ rd_open \in [Streams -> BOOLEAN]
    /\ wr_open = rd_open
    /\ ret = [stdout_ |-> << >>, stderr_ |-> << >>]
    /\ pbuf = [x \in Streams |-> << >>]
    /\ written = [x \in Streams |-> << >>]
    /\ io_joined = FALSE
    /\ io_errno = "none"
    /\ fd_closes = [x \in Streams |-> 0]

\* The child writes one byte to a piped stream (it blocks while the pipe is full)
ChildWrite(x, b) ==
    /\ io_pc \notin {"aborted", "raised", "interrupted"}
    /\ wr_open[x]
    /\ Len(pbuf[x]) < PipeCap
    /\ Len(written["out"]) + Len(written["err"]) < MaxBytes
    /\ pbuf' = [pbuf EXCEPT ![x] = Append(@, b)]
    /\ written' = [written EXCEPT ![x] = Append(@, b)]
    /\ UNCHANGED <<io_pc, io_fn, io_timeout, poll_fds, pfd_i, rd_open, ret, wr_open>>
    /\ UNCHANGED <<io_joined, io_errno, fd_closes>>
    /\ UNCHANGED nonIOVars

\* The child closes a stream (or exits)
ChildClose(x) ==
    /\ wr_open[x]
    /\ wr_open' = [wr_open EXCEPT ![x] = FALSE]
    /\ UNCHANGED <<io_pc, io_fn, io_timeout, poll_fds, pfd_i, rd_open, ret, pbuf, written>>
    /\ UNCHANGED <<io_joined, io_errno, fd_closes>>
    /\ UNCHANGED nonIOVars

\* Where control goes when _do_read_output returns: back to the while test of
\* read_output, or to the caller of read_output_into
after_do_read_output(fn, rd) ==
    IF fn = "read_output"
    THEN (IF read_output_continues(rd) THEN "poll" ELSE "returned")
    ELSE "idle"

\* subprocess::read_output() is called: the first test of its while loop
ReadOutput ==
    /\ io_pc = "idle"
    /\ io_fn' = "read_output"
    /\ io_timeout' = 0 - 1
    /\ io_pc' = after_do_read_output("read_output", rd_open)
    /\ UNCHANGED <<poll_fds, pfd_i, rd_open, ret, wr_open, pbuf, written>>
    /\ UNCHANGED <<io_joined, io_errno, fd_closes>>
    /\ UNCHANGED nonIOVars

\* The timeouts read_output_into is called with: forever (-1, which the
\* one-argument overload passes), none, and one millisecond
Timeouts == {0 - 1, 0, 1}

\* subprocess::read_output_into(out, timeout) is called: one _do_read_output
ReadOutputInto(timeout) ==
    /\ io_pc = "idle"
    /\ io_fn' = "read_output_into"
    /\ io_timeout' = timeout
    /\ io_pc' = "poll"
    /\ UNCHANGED <<poll_fds, pfd_i, rd_open, ret, wr_open, pbuf, written>>
    /\ UNCHANGED <<io_joined, io_errno, fd_closes>>
    /\ UNCHANGED nonIOVars

\* The value poll() returns: the number of descriptors with an event
poll_rc(fds) == Cardinality({i \in DOMAIN fds : fds[i].revents # {}})

\* _do_read_output (POSIX) up to the return of poll(): with nothing to poll it
\* returns at once; else poll() returns once some polled descriptor has an
\* event, or with 0 when the timeout (if there is one) runs out before that,
\* and then _do_read_output returns
poll_throws_for_signal(rc, errno) == rc # 0 /\ errno = "EINTR"

Poll(eof_in) ==
    /\ io_pc = "poll"
    /\ platform = "posix"
    /\ IF pollfd_array(rd_open) = << >>
       THEN /\ io_pc' = after_do_read_output(io_fn, rd_open)
            /\ UNCHANGED <<poll_fds, pfd_i>>
       ELSE LET fds == poll(pollfd_array(rd_open), pbuf, wr_open, eof_in)
                rc == poll_rc(fds)
            IN  /\ rc > 0 \/ io_timeout >= 0
                /\ IF poll_throws_for_signal(rc, io_errno)
                   THEN /\ io_pc' = "interrupted"
                        /\ UNCHANGED <<poll_fds, pfd_i>>
                   ELSE IF rc = 0
                   THEN /\ io_pc' = after_do_read_output(io_fn, rd_open)
                        /\ UNCHANGED <<poll_fds, pfd_i>>
                   ELSE /\ poll_fds' = fds
                        /\ pfd_i' = 1
                        /\ io_pc' = "loop"
    /\ UNCHANGED <<io_fn, io_timeout, rd_open, ret, wr_open, pbuf, written>>
    /\ UNCHANGED <<io_joined, io_errno, fd_closes>>
    /\ UNCHANGED nonIOVars

\* One iteration of the for loop over the polled descriptors (POSIX); after the
\* last one _do_read_output returns
\* The close() calls made on the descriptor when a read of it returned nread
\* bytes: at end-of-file do_read_into of the native_io_stream_ref closes the
\* descriptor it was given, and then the impl's pipe, which still holds the
\* same number, is closed
eof_closes(nread) == IF nread = 0 THEN 2 ELSE 0

HandleFd ==
    /\ io_pc = "loop"
    /\ platform = "posix"
    /\ LET pfd == poll_fds[pfd_i]
           is_stdout == has_stdout(rd_open) /\ pfd.fd = "out"
           pipe == IF is_stdout THEN "out" ELSE "err"
           target == read_target(is_stdout)
           nread == Min(ReadChunk, Len(pbuf[pfd.fd]))
           closed == [rd_open EXCEPT ![pipe] = FALSE]
           after(rd) == IF pfd_i < Len(poll_fds) THEN "loop"
                        ELSE after_do_read_output(io_fn, rd)
       IN  IF ~("POLLIN" \in pfd.revents \/ "POLLHUP" \in pfd.revents)
           THEN \* neo_assert(invariant, ...) fails
                /\ io_pc' = "aborted"
                /\ UNCHANGED <<pfd_i, rd_open, ret, pbuf, fd_closes>>
           ELSE IF "POLLHUP" \in pfd.revents /\ "POLLIN" \notin pfd.revents
           THEN \* _impl->stdout_pipe.close() or _impl->stderr_pipe.close()
                /\ rd_open' = closed
                /\ fd_closes' = [fd_closes EXCEPT ![pipe] = @ + 1]
                /\ pfd_i' = pfd_i + 1
                /\ io_pc' = after(closed)
                /\ UNCHANGED <<ret, pbuf>>
           ELSE /\ ret' = [ret EXCEPT ![target] = @ \o SubSeq(pbuf[pfd.fd], 1, nread)]
                /\ pbuf' = [pbuf EXCEPT ![pfd.fd] = SubSeq(@, nread + 1, Len(@))]
                /\ rd_open' = IF nread = 0 THEN closed ELSE rd_open
                /\ fd_closes' = [fd_closes EXCEPT ![pipe] = @ + eof_closes(nread)]
                /\ pfd_i' = pfd_i + 1
                /\ io_pc' = after(IF nread = 0 THEN closed ELSE rd_open)
    /\ UNCHANGED <<io_fn, io_timeout, poll_fds, wr_open, written>>
    /\ UNCHANGED <<io_joined, io_errno>>
    /\ UNCHANGED nonIOVars

\* The handle array _do_read_output (Windows) passes to WaitForMultipleObjects,
\* which is also the pipes its for loop does not skip
wait_handles(rd) ==
    (IF has_stdout(rd) THEN <<[fd |-> "out", revents |-> {}]>> ELSE << >>)
    \o (IF has_stderr(rd) THEN <<[fd |-> "err", revents |-> {}]>> ELSE << >>)

\* WaitForMultipleObjects(n, handles, FALSE, timeout): a count of zero is an
\* invalid parameter (WAIT_FAILED). A pipe handle is not a synchronisation
\* object: whether a wait on one is satisfied says nothing about the pipe, so
\* the wait may return satisfied at any time (w), or time out if it has a
\* timeout.
WaitResults == {"WAIT_OBJECT_0", "WAIT_TIMEOUT"}

WaitForMultipleObjects(handles, timeout, w) ==
    IF Len(handles) = 0 THEN "WAIT_FAILED"
    ELSE IF timeout < 0 THEN "WAIT_OBJECT_0"
    ELSE w

\* _do_read_output (Windows) up to the return of the wait
WinWait(w) ==
    /\ io_pc = "poll"
    /\ platform = "win"
    /\ LET handles == wait_handles(rd_open)
           result == WaitForMultipleObjects(handles, io_timeout, w)
       IN  /\ result = "WAIT_FAILED" \/ result = w
           /\ IF result = "WAIT_FAILED"
              THEN \* throw_current_error
                   /\ io_pc' = "raised"
                   /\ UNCHANGED <<poll_fds, pfd_i>>
              ELSE IF result = "WAIT_TIMEOUT"
              THEN /\ io_pc' = after_do_read_output(io_fn, rd_open)
                   /\ UNCHANGED <<poll_fds, pfd_i>>
              ELSE /\ poll_fds' = handles
                   /\ pfd_i' = 1
                   /\ io_pc' = "loop"
    /\ UNCHANGED <<io_fn, io_timeout, rd_open, ret, wr_open, pbuf, written>>
    /\ UNCHANGED <<io_joined, io_errno, fd_closes>>
    /\ UNCHANGED nonIOVars

\* One iteration of the for loop over the open pipes (Windows): a blocking
\* ReadFile of up to 1024 bytes. It returns once bytes are there; with no
\* bytes and no write end left it fails with ERROR_BROKEN_PIPE, which is thrown.
WinReadPipe ==
    /\ io_pc = "loop"
    /\ platform = "win"
    /\ LET pipe == poll_fds[pfd_i].fd
           is_stdout == pipe = "out"
           target == read_target(is_stdout)
           nread == Min(ReadChunk, Len(pbuf[pipe]))
       IN  /\ pbuf[pipe] # << >> \/ ~wr_open[pipe]
           /\ IF pbuf[pipe] = << >>
              THEN /\ io_pc' = "raised"
                   /\ UNCHANGED <<pfd_i, ret, pbuf>>
              ELSE /\ ret' = [ret EXCEPT ![target] = @ \o SubSeq(pbuf[pipe], 1, nread)]
                   /\ pbuf' = [pbuf EXCEPT ![pipe] = SubSeq(@, nread + 1, Len(@))]
                   /\ pfd_i' = pfd_i + 1
                   /\ io_pc' = IF pfd_i < Len(poll_fds) THEN "loop"
                               ELSE after_do_read_output(io_fn, rd_open)
    /\ UNCHANGED <<io_fn, io_timeout, poll_fds, rd_open, wr_open, written>>
    /\ UNCHANGED <<io_joined, io_errno, fd_closes>>
    /\ UNCHANGED nonIOVars

\* poll() fails with EINTR: a signal arrived during the wait; throw_for_signal()
PollInterrupted ==
    /\ io_pc = "poll"
    /\ platform = "posix"
    /\ pollfd_array(rd_open) # << >>
    /\ io_errno' = "EINTR"
    /\ io_pc' = "interrupted"
    /\ UNCHANGED <<io_fn, io_timeout, poll_fds, pfd_i, rd_open, ret, wr_open, pbuf, written,
                   io_joined, fd_closes>>
    /\ UNCHANGED nonIOVars

\* join() between two read calls. eintr: waitid() fails with EINTR and
\* join() throws, leaving errno behind; else it returns once the child has
\* exited, which has closed the child's ends of the pipes. _do_join touches
\* no pipe.
IOJoin(eintr) ==
    /\ io_pc = "idle"
    /\ ~io_joined
    /\ IF eintr
       THEN /\ platform = "posix"
            /\ io_errno' = "EINTR"
            /\ UNCHANGED io_joined
       ELSE /\ \A x \in Streams : ~wr_open[x]
            /\ io_joined' = TRUE
            /\ UNCHANGED io_errno
    /\ UNCHANGED <<io_pc, io_fn, io_timeout, poll_fds, pfd_i, rd_open, ret, wr_open, pbuf,
                   written, fd_closes>>
    /\ UNCHANGED nonIOVars

IONext ==
    \/ \E x \in Streams, b \in Bytes : ChildWrite(x, b)
    \/ \E x \in Streams : ChildClose(x)
    \/ ReadOutput
    \/ \E timeout \in Timeouts : ReadOutputInto(timeout)
    \/ \E eof_in \in BOOLEAN : Poll(eof_in)
    \/ HandleFd
    \/ \E w \in WaitResults : WinWait(w)
    \/ WinReadPipe
    \/ PollInterrupted
    \/ \E eintr \in BOOLEAN : IOJoin(eintr)


\* ----------------------------------------------------- descriptor tables
\* (POSIX backend) Which process holds which pipe end, across spawn(),
\* write_input() and close_stdin(), for children that copy their standard
\* input to their standard output until end-of-file.
MaxChildren == 2   \* children spawned in all
MaxInput == 2      \* bytes written to one child's stdin in all
Children == 1..MaxChildren
FdProcs == {0} \cup Children      \* 0 is the parent
FdOptions == [stdin_: {"pipe", "null"}, stdout_: {"pipe", "inherit"}]
NoFdOptions == [stdin_ |-> "none", stdout_ |-> "none"]

\* A descriptor: the pipe (child k's stream), the end, where the process keeps
\* it, and its close-on-exec flag
Fd(k, stream, end, at) == [k |-> k, stream |-> stream, end |-> end, at |-> at, cloexec |-> FALSE]

set_cloexec(fd) == [fd EXCEPT !.cloexec = TRUE]

\* btr::create_pipe(): both ends are plain descriptors
create_pipe(k, stream, reader_at, writer_at) ==
    [reader |-> Fd(k, stream, "r", reader_at), writer |-> Fd(k, stream, "w", writer_at)]

\* spawn(), opts.stdout_ visited: the descriptors it opens in the parent
stdout_fds(k, opts) ==
    IF opts.stdout_ = "pipe"
    THEN LET pipe == create_pipe(k, "stdout", "imp", "local") IN {pipe.reader, pipe.writer}
    ELSE {}

\* spawn(), opts.stdin_ visited (the /dev/null descriptor is not a pipe end)
stdin_fds_Inheritable(k, opts) ==
    IF opts.stdin_ = "pipe"
    THEN LET pipe == create_pipe(k, "stdin", "local", "imp") IN {pipe.reader, pipe.writer}
    ELSE {}
stdin_fds(k, opts) ==
    IF opts.stdin_ = "pipe"
    THEN LET pipe == create_pipe(k, "stdin", "local", "imp")
         IN  {pipe.reader, set_cloexec(pipe.writer)}
    ELSE {}

error_io_pipe(k) == create_pipe(k, "error", "local", "local")

\* The parent's table at the moment of fork()
spawn_fds_at_fork(tab, k, opts) ==
    tab \cup stdout_fds(k, opts) \cup stdin_fds(k, opts)
        \cup {error_io_pipe(k).reader, error_io_pipe(k).writer}

\* dup2(fd, n): descriptor n now names the same pipe end, without close-on-exec
dup2(tab, k, stream, end, n) ==
    IF \E e \in tab : e.k = k /\ e.stream = stream /\ e.end = end /\ e.at = "local"
    THEN {e \in tab : e.at # n} \cup {Fd(k, stream, end, n)}
    ELSE tab

\* The child between fork() and exec: the copy of the parent's table, the
\* error pipe's reader closed and its writer close-on-exec, stdio duplicated
spawn_child_fds(tab, k) ==
    LET t1 == tab \ {error_io_pipe(k).reader}
        t2 == (t1 \ {error_io_pipe(k).writer}) \cup {set_cloexec(error_io_pipe(k).writer)}
        t3 == dup2(t2, k, "stdin", "r", "fd0")
    IN  dup2(t3, k, "stdout", "w", "fd1")

\* A successful exec closes the close-on-exec descriptors
exec_fds(tab) == {e \in tab : ~e.cloexec}

\* The parent when spawn() returns or throws: the error pipe is closed, and so
\* are the ends the locals stdout_writer, stderr_writer and stdin_reader own
spawn_parent_fds(tab, k) == {e \in tab : ~(e.k = k /\ e.at = "local")}

holders(tabs, k, stream, end) ==
    {p \in FdProcs : \E e \in tabs[p] : e.k = k /\ e.stream = stream /\ e.end = end}

\* has_stdin() of child k's handle
has_stdin(tabs, k) == \E e \in tabs[0] : e.k = k /\ e.stream = "stdin" /\ e.end = "w" /\ e.at = "imp"

\* handle_io_stream::close() of impl::stdin_pipe
close_stdin_pipe(tab, k) == {e \in tab : ~(e.k = k /\ e.stream = "stdin" /\ e.end = "w" /\ e.at = "imp")}

FdInit ==
    /\ fd_held = [p \in FdProcs |-> {}]
    /\ fd_child = [k \in Children |-> "unborn"]
    /\ fd_opts = [k \in Children |-> NoFdOptions]
    /\ fd_spawned = 0
    /\ stdin_buf = [k \in Children |-> << >>]
    /\ sent = [k \in Children |-> << >>]
    /\ got = [k \in Children |-> << >>]
    /\ echoed = [k \in Children |-> << >>]
    /\ fd_fault = "none"

\* subprocess::spawn(opts): the parent is blocked reading the error pipe until
\* the child has exec'd (ok) or has reported a failure and exited
FdSpawn(opts, ok) ==
    /\ fd_fault = "none"
    /\ fd_spawned < MaxChildren
    /\ LET k == fd_spawned + 1
           at_fork == spawn_fds_at_fork(fd_held[0], k, opts)
           child == IF ok THEN exec_fds(spawn_child_fds(at_fork, k)) ELSE {}
           parent == spawn_parent_fds(at_fork, k)
           tabs == [fd_held EXCEPT ![0] = parent, ![k] = child]
       IN  \* the read of the error pipe returns once no write end is left
           /\ holders(tabs, k, "error", "w") = {}
           /\ fd_spawned' = k
           /\ fd_opts' = [fd_opts EXCEPT ![k] = opts]
           /\ IF ok
              THEN /\ fd_held' = tabs
                   /\ fd_child' = [fd_child EXCEPT ![k] = "running"]
              ELSE \* throw_if_error_on_pipe throws: the impl and its pipes go
                   /\ fd_held' = [tabs EXCEPT ![0] = {e \in parent : e.k # k}]
                   /\ fd_child' = [fd_child EXCEPT ![k] = "failed"]
    /\ UNCHANGED <<stdin_buf, sent, got, echoed, fd_fault>>
    /\ UNCHANGED nonFdVars

\* subprocess::write_input(buf): one write() on impl::stdin_pipe. Writing to a
\* closed descriptor fails neo_assert(expects); a write of no bytes returns 0
\* and do_write closes the stream.
WriteInput(k, buf) ==
    /\ fd_fault = "none"
    /\ fd_child[k] \in {"running", "exited"}
    /\ Len(sent[k]) + Len(buf) <= MaxInput
    /\ IF ~has_stdin(fd_held, k)
       THEN /\ fd_fault' = "expects"
            /\ UNCHANGED <<fd_held, stdin_buf, sent>>
       ELSE /\ holders(fd_held, k, "stdin", "r") # {}
            /\ stdin_buf' = [stdin_buf EXCEPT ![k] = @ \o buf]
            /\ sent' = [sent EXCEPT ![k] = @ \o buf]
            /\ fd_held' = IF Len(buf) = 0
                          THEN [fd_held EXCEPT ![0] = close_stdin_pipe(@, k)]
                          ELSE fd_held
            /\ UNCHANGED fd_fault
    /\ UNCHANGED <<fd_child, fd_opts, fd_spawned, got, echoed>>
    /\ UNCHANGED nonFdVars

\* subprocess::close_stdin()
CloseStdin(k) ==
    /\ fd_fault = "none"
    /\ fd_child[k] \in {"running", "exited"}
    /\ fd_held' = [fd_held EXCEPT ![0] = close_stdin_pipe(@, k)]
    /\ UNCHANGED <<fd_child, fd_opts, fd_spawned, stdin_buf, sent, got, echoed, fd_fault>>
    /\ UNCHANGED nonFdVars

\* The child reads its standard input and copies n bytes to its standard output
ChildRead(k, n) ==
    /\ fd_child[k] = "running"
    /\ fd_opts[k].stdin_ = "pipe"
    /\ n \in 1..Len(stdin_buf[k])
    /\ got' = [got EXCEPT ![k] = @ \o SubSeq(stdin_buf[k], 1, n)]
    /\ echoed' = [echoed EXCEPT ![k] = @ \o SubSeq(stdin_buf[k], 1, n)]
    /\ stdin_buf' = [stdin_buf EXCEPT ![k] = SubSeq(@, n + 1, Len(@))]
    /\ UNCHANGED <<fd_held, fd_child, fd_opts, fd_spawned, sent, fd_fault>>
    /\ UNCHANGED nonFdVars

\* The child's read returns 0: nothing is in flight and no process holds the
\* write end (or stdin is /dev/null). It exits, which closes its descriptors.
ChildEof(k) ==
    /\ fd_child[k] = "running"
    /\ \/ fd_opts[k].stdin_ # "pipe"
       \/ stdin_buf[k] = << >> /\ holders(fd_held, k, "stdin", "w") = {}
    /\ fd_child' = [fd_child EXCEPT ![k] = "exited"]
    /\ fd_held' = [fd_held EXCEPT ![k] = {}]
    /\ UNCHANGED <<fd_opts, fd_spawned, stdin_buf, sent, got, echoed, fd_fault>>
    /\ UNCHANGED nonFdVars

InputBufs == {<< >>} \cup {<<b>> : b \in Bytes} \cup {<<b, c>> : b \in Bytes, c \in Bytes}

FdNext ==
    \/ \E opts \in FdOptions, ok \in BOOLEAN : FdSpawn(opts, ok)
    \/ \E k \in Children, buf \in InputBufs : WriteInput(k, buf)
    \/ \E k \in Children : CloseStdin(k)
    \/ \E k \in Children, n \in 1..MaxInput : ChildRead(k, n)
    \/ \E k \in Children : ChildEof(k)


\* ---------------------------------------------------- output redirection
\* spawn() with stdout_ set to a file path, and the child writing to its
\* standard output until it exits.
MaxFileBytes == 3  \* bytes the child writes in all
CREATE_ALWAYS == 2
TRUNCATE_EXISTING == 5

RECURSIVE BitOr(_, _)
BitOr(a, b) ==
    IF a = 0 THEN b
    ELSE IF b = 0 THEN a
    ELSE (IF a % 2 = 1 \/ b % 2 = 1 THEN 1 ELSE 0) + 2 * BitOr(a \div 2, b \div 2)

NoFile == [exists |-> FALSE, data |-> << >>]

\* ::open(path, flags, 0644) for writing
open(file, flags) ==
    IF ~file.exists /\ "O_CREAT" \notin flags
    THEN [ok |-> FALSE, err |-> "ENOENT", file |-> file]
    ELSE [ok |-> TRUE, err |-> "none",
          file |-> IF ~file.exists \/ "O_TRUNC" \in flags
                   THEN [exists |-> TRUE, data |-> << >>] ELSE file]

\* ::CreateFileW(path, GENERIC_WRITE, ..., dwCreationDisposition, ...): the
\* disposition is one of the values 1 (CREATE_NEW) to 5 (TRUNCATE_EXISTING);
\* any other value is ERROR_INVALID_PARAMETER
CreateFileW(file, dwCreationDisposition) ==
    IF dwCreationDisposition \notin 1..5
    THEN [ok |-> FALSE, err |-> "ERROR_INVALID_PARAMETER", file |-> file]
    ELSE IF dwCreationDisposition = CREATE_ALWAYS
    THEN [ok |-> TRUE, err |-> "none", file |-> [exists |-> TRUE, data |-> << >>]]
    ELSE IF dwCreationDisposition = TRUNCATE_EXISTING
    THEN (IF file.exists
          THEN [ok |-> TRUE, err |-> "none", file |-> [exists |-> TRUE, data |-> << >>]]
          ELSE [ok |-> FALSE, err |-> "ERROR_FILE_NOT_FOUND", file |-> file])
    ELSE IF dwCreationDisposition = 1
    THEN (IF file.exists
          THEN [ok |-> FALSE, err |-> "ERROR_FILE_EXISTS", file |-> file]
          ELSE [ok |-> TRUE, err |-> "none", file |-> [exists |-> TRUE, data |-> << >>]])
    ELSE IF dwCreationDisposition = 3 /\ ~file.exists
    THEN [ok |-> FALSE, err |-> "ERROR_FILE_NOT_FOUND", file |-> file]
    ELSE [ok |-> TRUE, err |-> "none",
          file |-> IF file.exists THEN file ELSE [exists |-> TRUE, data |-> << >>]]

\* setup_spawn_file_output of either backend: whether it returned a handle,
\* the file afterwards, and whether the child will inherit the handle
setup_spawn_file_output(plat, file) ==
    IF plat = "posix"
    THEN LET o == open(file, {"O_WRONLY", "O_CREAT", "O_TRUNC"})
         IN  [ok |-> o.ok, err |-> o.err, file |-> o.file, inheritable |-> TRUE]
    ELSE LET c == CreateFileW(file, BitOr(CREATE_ALWAYS, TRUNCATE_EXISTING))
         IN  \* SetHandleInformation(h, HANDLE_FLAG_INHERIT, 0)
             [ok |-> c.ok, err |-> c.err, file |-> c.file, inheritable |-> FALSE]

FileInit ==
    /\ f_pc = "init"
    /\ fs_file \in {NoFile} \cup {[exists |-> TRUE, data |-> d] :
                       d \in {<< >>} \cup {<<b>> : b \in Bytes} \cup {<<b, c>> : b \in Bytes, c \in Bytes}}
    /\ f_pre = fs_file
    /\ f_stdout = [usable |-> FALSE, offset |-> 0]
    /\ f_written = << >>

\* spawn({.command = ..., .stdout_ = path}) for a command that launches
FileSpawn ==
    /\ f_pc = "init"
    /\ LET r == setup_spawn_file_output(platform, fs_file)
       IN  IF r.ok
           THEN /\ f_pc' = "running"
                /\ fs_file' = r.file
                /\ f_stdout' = [usable |-> r.inheritable, offset |-> 0]
           ELSE \* throw_current_error
                /\ f_pc' = "raised"
                /\ UNCHANGED <<fs_file, f_stdout>>
    /\ UNCHANGED <<f_written, f_pre>>
    /\ UNCHANGED nonFileVars

\* The child writes one byte to its standard output
FileChildWrite(b) ==
    /\ f_pc = "running"
    /\ Len(f_written) < MaxFileBytes
    /\ f_written' = Append(f_written, b)
    /\ IF f_stdout.usable
       THEN /\ fs_file' = [fs_file EXCEPT !.data =
                              SubSeq(@, 1, f_stdout.offset) \o <<b>>
                              \o SubSeq(@, f_stdout.offset + 2, Len(@))]
            /\ f_stdout' = [f_stdout EXCEPT !.offset = @ + 1]
       ELSE UNCHANGED <<fs_file, f_stdout>>
    /\ UNCHANGED <<f_pc, f_pre>>
    /\ UNCHANGED nonFileVars

FileChildExit ==
    /\ f_pc = "running"
    /\ f_pc' = "exited"
    /\ UNCHANGED <<fs_file, f_stdout, f_written, f_pre>>
    /\ UNCHANGED nonFileVars

FileNext ==
    \/ FileSpawn
    \/ \E b \in Bytes : FileChildWrite(b)
    \/ FileChildExit

\* ------------------------------------------------------- specifications
\* Each specification runs one part of the model and holds the others still
LifeIdle ==
    /\ platform = "posix"
    /\ subs = [h \in Slots |-> NoObject]
    /\ impl_pid = [i \in Impls |-> 0]
    /\ impl_live = [i \in Impls |-> FALSE]
    /\ kproc = [p \in Impls |-> NoProc]
    /\ nspawn = 0
    /\ fault = "none"
    /\ last = NoLast
    /\ life = [h \in Slots |-> "empty"]
    /\ joins = [p \in Impls |-> 0]
    /\ joinRet = [p \in Impls |-> NoExit]
    /\ signalled = [p \in Impls |-> 0]
    /\ interrupted = [p \in Impls |-> FALSE]

IOIdle ==
    /\ io_pc = "idle"
    /\ io_fn = "none"
    /\ io_timeout = 0 - 1
    /\ poll_fds = << >>
    /\ pfd_i = 1
    /\ rd_open = [x \in Streams |-> FALSE]
    /\ wr_open = [x \in Streams |-> FALSE]
    /\ ret = [stdout_ |-> << >>, stderr_ |-> << >>]
    /\ pbuf = [x \in Streams |-> << >>]
    /\ written = [x \in Streams |-> << >>]
    /\ io_joined = FALSE
    /\ io_errno = "none"
    /\ fd_closes = [x \in Streams |-> 0]

\* ---------------------------------------------------------------- argument quoting
\* Characters are one-character strings, an argument is a sequence of them.
MaxArgLen == 2

QuoteChars == {"a", "-", " ", "\"", "\\"}

RECURSIVE SeqsUpTo(_, _)
SeqsUpTo(S, n) ==
    IF n = 0 THEN {<< >>}
    ELSE LET shorter == SeqsUpTo(S, n - 1)
         IN shorter \cup {Append(w, c) : w \in {x \in shorter : Len(x) = n - 1}, c \in S}

QuoteArgs == SeqsUpTo(QuoteChars, MaxArgLen)

QuoteArgLists == {<<a>> : a \in QuoteArgs} \cup {<<a, b>> : a \in QuoteArgs, b \in QuoteArgs}

isalnum(c) ==
    c \in {"a", "b", "c", "d", "e", "f", "g", "h", "i", "j", "k", "l", "m",
           "n", "o", "p", "q", "r", "s", "t", "u", "v", "w", "x", "y", "z",
           "A", "B", "C", "D", "E", "F", "G", "H", "I", "J", "K", "L", "M",
           "N", "O", "P", "Q", "R", "S", "T", "U", "V", "W", "X", "Y", "Z",
           "0", "1", "2", "3", "4", "5", "6", "7", "8", "9"}

okay_chars == {"@", "%", "-", "+", "=", ":", ",", ".", "/", "|", "_"}

argv_arg_needs_quoting(arg) ==
    LET all_okay == \A i \in DOMAIN arg : isalnum(arg[i]) \/ arg[i] \in okay_chars
    IN ~all_okay

\* The loop of quote_argv_arg over the code points of an argument
RECURSIVE quote_argv_arg_loop(_)
quote_argv_arg_loop(cps) ==
    IF cps = << >> THEN << >>
    ELSE LET c == Head(cps)
         IN (IF c = "\\" THEN <<"\\", "\\">>
             ELSE IF c = "\"" THEN <<"\\", "\"">>
             ELSE <<c>>) \o quote_argv_arg_loop(Tail(cps))

quote_argv_arg(arg) ==
    IF ~argv_arg_needs_quoting(arg) THEN arg
    ELSE quote_argv_arg_loop(arg)

RECURSIVE quote_argv_string_loop(_)
quote_argv_string_loop(r) ==
    IF r = << >> THEN << >>
    ELSE (quote_argv_arg(Head(r)) \o <<" ">>) \o quote_argv_string_loop(Tail(r))

quote_argv_string(r) ==
    LET acc == quote_argv_string_loop(r)
    IN IF acc # << >> THEN SubSeq(acc, 1, Len(acc) - 1) ELSE acc

\* How the started program's runtime splits the command line CreateProcessW
\* was given: blanks separate arguments outside double quotes, 2n backslashes
\* before a double quote give n backslashes and a quote mark, 2n+1 give n
\* backslashes and a literal double quote, other backslashes are literal.
RECURSIVE LeadingBackslashes(_)
LeadingBackslashes(line) ==
    IF line # << >> /\ Head(line) = "\\" THEN 1 + LeadingBackslashes(Tail(line)) ELSE 0

Backslashes(n) == [i \in 1..n |-> "\\"]

RECURSIVE parse_cmdline(_, _, _, _, _)
parse_cmdline(line, cur, started, inquote, out) ==
    IF line = << >> THEN (IF started THEN Append(out, cur) ELSE out)
    ELSE LET c == Head(line)
         IN IF c = "\\"
            THEN LET n == LeadingBackslashes(line)
                     rest == SubSeq(line, n + 1, Len(line))
                 IN IF rest # << >> /\ Head(rest) = "\""
                    THEN IF n % 2 = 0
                         THEN parse_cmdline(Tail(rest), cur \o Backslashes(n \div 2),
                                            TRUE, ~inquote, out)
                         ELSE parse_cmdline(Tail(rest),
                                            (cur \o Backslashes(n \div 2)) \o <<"\"">>,
                                            TRUE, inquote, out)
                    ELSE parse_cmdline(rest, cur \o Backslashes(n), TRUE, inquote, out)
            ELSE IF c = "\""
            THEN parse_cmdline(Tail(line), cur, TRUE, ~inquote, out)
            ELSE IF c = " " /\ ~inquote
            THEN parse_cmdline(Tail(line), << >>, FALSE, FALSE,
                               IF started THEN Append(out, cur) ELSE out)
            ELSE parse_cmdline(Tail(line), Append(cur, c), TRUE, inquote, out)

QuoteInit ==
    /\ q_pc = "args"
    /\ q_args \in QuoteArgLists
    /\ q_line = << >>
    /\ q_argv = << >>

\* spawn() on Windows builds the command line from opts.command
QuoteCommand ==
    /\ q_pc = "args"
    /\ q_line' = quote_argv_string(q_args)
    /\ q_pc' = "quoted"
    /\ UNCHANGED <<q_args, q_argv>>
    /\ UNCHANGED nonQuoteVars

\* the child starts and its runtime splits the command line into argv
ChildParsesCommandLine ==
    /\ q_pc = "quoted"
    /\ q_argv' = parse_cmdline(q_line, << >>, FALSE, FALSE, << >>)
    /\ q_pc' = "split"
    /\ UNCHANGED <<q_args, q_line>>
    /\ UNCHANGED nonQuoteVars

QuoteNext == QuoteCommand \/ ChildParsesCommandLine

\* ------------------------------------------------------ concurrent spawns
\* (POSIX backend) Two threads of the parent each call spawn(). The threads
\* share the parent's descriptor table; fork() gives the child a copy of all
\* of it as it is at that moment.
Threads == {1, 2}
ConProcs == {0} \cup Threads      \* 0 is the parent, t the child thread t forks

ConIdle ==
    /\ c_pc = [t \in Threads |-> "idle"]
    /\ c_opts = [t \in Threads |-> NoFdOptions]
    /\ c_held = [p \in ConProcs |-> {}]
    /\ c_child = [t \in Threads |-> "unborn"]

ConInit == ConIdle

con_holders(tabs, k, stream, end) ==
    {p \in ConProcs : \E e \in tabs[p] : e.k = k /\ e.stream = stream /\ e.end = end}

\* spawn() up to fork(): the pipes of the three std::visit calls and the error
\* pipe are created in the parent
ConOpen(t, opts) ==
    /\ c_pc[t] = "idle"
    /\ c_pc' = [c_pc EXCEPT ![t] = "opened"]
    /\ c_opts' = [c_opts EXCEPT ![t] = opts]
    /\ c_held' = [c_held EXCEPT ![0] = spawn_fds_at_fork(@, t, opts)]
    /\ UNCHANGED c_child
    /\ UNCHANGED nonConVars

\* fork(): the child has every descriptor the parent has now; the parent's
\* thread closes its error_io_pipe.writer and goes on to read the error pipe
ConFork(t) ==
    /\ c_pc[t] = "opened"
    /\ c_pc' = [c_pc EXCEPT ![t] = "forked"]
    /\ c_held' = [c_held EXCEPT ![t] = c_held[0],
                                ![0] = @ \ {error_io_pipe(t).writer}]
    /\ c_child' = [c_child EXCEPT ![t] = "forked"]
    /\ UNCHANGED c_opts
    /\ UNCHANGED nonConVars

\* The child closes the error pipe's reader, sets its writer close-on-exec,
\* duplicates its standard streams and calls exec, which succeeds
ConChildExec(t) ==
    /\ c_child[t] = "forked"
    /\ c_held' = [c_held EXCEPT ![t] = exec_fds(spawn_child_fds(@, t))]
    /\ c_child' = [c_child EXCEPT ![t] = "running"]
    /\ UNCHANGED <<c_pc, c_opts>>
    /\ UNCHANGED nonConVars

\* throw_if_error_on_pipe: the read returns 0 once no process holds a write
\* end of the error pipe, and spawn() returns; its locals close their ends
ConReturn(t) ==
    /\ c_pc[t] = "forked"
    /\ con_holders(c_held, t, "error", "w") = {}
    /\ c_pc' = [c_pc EXCEPT ![t] = "returned"]
    /\ c_held' = [c_held EXCEPT ![0] = spawn_parent_fds(@, t)]
    /\ UNCHANGED <<c_opts, c_child>>
    /\ UNCHANGED nonConVars

\* The child exits: all its descriptors are closed
ConChildExit(t) ==
    /\ c_child[t] = "running"
    /\ c_child' = [c_child EXCEPT ![t] = "exited"]
    /\ c_held' = [c_held EXCEPT ![t] = {}]
    /\ UNCHANGED <<c_pc, c_opts>>
    /\ UNCHANGED nonConVars

ConNext ==
    \/ \E t \in Threads, opts \in FdOptions : ConOpen(t, opts)
    \/ \E t \in Threads : ConFork(t)
    \/ \E t \in Threads : ConChildExec(t)
    \/ \E t \in Threads : ConReturn(t)
    \/ \E t \in Threads : ConChildExit(t)

\* ------------------------------------------------------------ the launch
\* What one spawn() sets up, for every combination of options: the endpoints
\* the handle keeps, the destinations of the child's standard streams, the
\* file executed, the argument vector and the process group. The child then
\* writes to its standard output and standard error.
MaxLaunchBytes == 2    \* bytes the child writes in all

NoProgram == [has |-> FALSE, path |-> << >>]

LaunchOptions ==
    [command: {<< >>, << <<"a">> >>, << <<"a">>, <<"x">> >>},
     program: {NoProgram, [has |-> TRUE, path |-> <<"b">>]},
     stdin_: {"null", "inherit", "pipe", "file"},
     stdout_: {"inherit", "pipe", "null", "file"},
     stderr_: {"inherit", "pipe", "null", "to_stdout", "file"},
     env_path_lookup: BOOLEAN,
     set_group_leader: BOOLEAN]

NoLaunch == [kind |-> "none", err |-> "none",
             has_stdin |-> FALSE, has_stdout |-> FALSE, has_stderr |-> FALSE,
             file |-> << >>, argv |-> << >>, path_search |-> FALSE,
             fd0 |-> "none", fd1 |-> "none", fd2 |-> "none", group_leader |-> FALSE]

\* POSIX: what the local stdout_writer / stderr_writer / stdin_reader refers to
\* after the std::visit of a stream's option ("closed": it was left unset)
posix_local_end(stream, mode) ==
    CASE mode = "pipe" -> stream
      [] mode = "file" -> "file"
      [] mode = "null" -> "/dev/null"
      [] OTHER -> "closed"

\* POSIX subprocess::spawn. null_exec is what execvp/execv of a null file name
\* does to the child: it fails with EFAULT, or the child dies of SIGSEGV.
launch_posix(opts, null_exec) ==
    IF ~opts.program.has /\ opts.command = << >>
    THEN [NoLaunch EXCEPT !.kind = "assert"]
    ELSE
    LET stdout_writer == posix_local_end("stdout_pipe", opts.stdout_)
        stderr_writer == posix_local_end("stderr_pipe", opts.stderr_)
        stdin_reader == posix_local_end("stdin_pipe", opts.stdin_)
        merge_stderr == opts.stderr_ = "to_stdout"
        \* the dup2 calls of the child, in order
        fd0 == IF stdin_reader # "closed" THEN stdin_reader ELSE "parent_stdin"
        fd1 == IF stdout_writer # "closed" THEN stdout_writer ELSE "parent_stdout"
        fd2a == IF stderr_writer # "closed" THEN stderr_writer ELSE "parent_stderr"
        fd2 == IF merge_stderr THEN fd1 ELSE fd2a
        strings0 == IF opts.command # << >> THEN opts.command[1] ELSE << >>
        started == [NoLaunch EXCEPT
                      !.kind = "handle",
                      !.has_stdin = (opts.stdin_ = "pipe"),
                      !.has_stdout = (opts.stdout_ = "pipe"),
                      !.has_stderr = (opts.stderr_ = "pipe"),
                      !.file = strings0, !.argv = opts.command,
                      !.path_search = opts.env_path_lookup,
                      !.fd0 = fd0, !.fd1 = fd1, !.fd2 = fd2,
                      !.group_leader = FALSE]
    IN  IF opts.command = << >>
        THEN \* exec_fn(strings[0], ...) with strings[0] == nullptr
             IF null_exec = "EFAULT"
             THEN [NoLaunch EXCEPT !.kind = "raise", !.err = "EFAULT"]
             ELSE [started EXCEPT !.file = << >>, !.fd0 = "none", !.fd1 = "none", !.fd2 = "none"]
        ELSE started

\* The executable path_lookup() and CreateProcessW settle on: an explicit
\* application name is used as it is, without a search
win_program(opts) ==
    IF opts.program.has THEN opts.program.path ELSE opts.command[1]

\* Windows subprocess::spawn. opts.stdin_ is never visited; STARTUPINFOW is
\* zero-initialised and STARTF_USESTDHANDLES is set, so a handle left null
\* gives the child no such stream.
launch_win(opts) ==
    LET cmd_str == quote_argv_string(opts.command)
        out_file == setup_spawn_file_output("win", NoFile)
        stdout_writer == CASE opts.stdout_ = "pipe" -> "stdout_pipe"
                           [] opts.stdout_ \in {"file", "null"} ->
                                 IF out_file.ok THEN opts.stdout_ ELSE "failed"
                           [] OTHER -> "closed"
        stderr_writer == CASE opts.stderr_ = "pipe" -> "stderr_pipe"
                           [] opts.stderr_ \in {"file", "null"} ->
                                 IF out_file.ok THEN opts.stderr_ ELSE "failed"
                           [] OTHER -> "closed"
        stderr_to_stdout_ == opts.stderr_ = "to_stdout"
        hStdOutput == IF stdout_writer # "closed" THEN stdout_writer ELSE "none"
        hStdError == IF stderr_writer # "closed" THEN stderr_writer
                     ELSE IF stderr_to_stdout_
                     THEN (IF stdout_writer # "closed" THEN hStdOutput ELSE "parent_stdout")
                     ELSE "none"
    IN  IF ~opts.program.has /\ opts.command = << >>
        THEN [NoLaunch EXCEPT !.kind = "assert"]
        ELSE IF "failed" \in {stdout_writer, stderr_writer}
        THEN [NoLaunch EXCEPT !.kind = "raise", !.err = out_file.err]
        ELSE [NoLaunch EXCEPT
                 !.kind = "handle",
                 !.has_stdin = FALSE,
                 !.has_stdout = (opts.stdout_ = "pipe"),
                 !.has_stderr = (opts.stderr_ = "pipe"),
                 !.file = win_program(opts),
                 !.argv = parse_cmdline(cmd_str, << >>, FALSE, FALSE, << >>),
                 !.path_search = (~opts.program.has /\ opts.env_path_lookup),
                 !.fd0 = "none", !.fd1 = hStdOutput, !.fd2 = hStdError,
                 \* dwCreationFlags is CREATE_NEW_PROCESS_GROUP
                 !.group_leader = TRUE]

launch(plat, opts, null_exec) ==
    IF plat = "posix" THEN launch_posix(opts, null_exec) ELSE launch_win(opts)

NoOutput == [stdout_ |-> << >>, stderr_ |-> << >>]

LaunchIdle ==
    /\ l_pc = "options"
    /\ l_opts = << >>
    /\ l_parent = << >>
    /\ l_child = << >>
    /\ l_out = NoOutput

LaunchInit ==
    /\ l_pc = "options"
    /\ l_opts \in LaunchOptions
    /\ l_parent = << >>
    /\ l_child = << >>
    /\ l_out = NoOutput

\* subprocess::spawn(l_opts)
LaunchSpawn(null_exec) ==
    /\ l_pc = "options"
    /\ LET r == launch(platform, l_opts, null_exec)
       IN  /\ l_pc' = CASE r.kind = "handle" -> "spawned"
                        [] r.kind = "raise" -> "raised"
                        [] OTHER -> "aborted"
           /\ l_parent' = [has_stdin |-> r.has_stdin, has_stdout |-> r.has_stdout,
                           has_stderr |-> r.has_stderr]
           /\ l_child' = [file |-> r.file, argv |-> r.argv, path_search |-> r.path_search,
                          fd0 |-> r.fd0, fd1 |-> r.fd1, fd2 |-> r.fd2,
                          group_leader |-> r.group_leader]
    /\ UNCHANGED <<l_opts, l_out>>
    /\ UNCHANGED nonLaunchVars

\* Where a byte written to a destination ends up in the parent's accumulator
\* once read_output() has read the pipes
arrives(out, dest, b) ==
    CASE dest = "stdout_pipe" -> [out EXCEPT !.stdout_ = Append(@, b)]
      [] dest = "stderr_pipe" -> [out EXCEPT !.stderr_ = Append(@, b)]
      [] OTHER -> out

\* The child writes one byte to its standard output ("o") or its standard
\* error ("e")
LaunchChildWrite(fd) ==
    /\ l_pc = "spawned"
    /\ l_child.file # << >>
    /\ Len(l_out.stdout_) + Len(l_out.stderr_) < MaxLaunchBytes
    /\ l_out' = IF fd = 1 THEN arrives(l_out, l_child.fd1, "o")
                ELSE arrives(l_out, l_child.fd2, "e")
    /\ l_out' # l_out
    /\ UNCHANGED <<l_pc, l_opts, l_parent, l_child>>
    /\ UNCHANGED nonLaunchVars

LaunchNext ==
    \/ \E null_exec \in {"EFAULT", "SIGSEGV"} : LaunchSpawn(null_exec)
    \/ \E fd \in {1, 2} : LaunchChildWrite(fd)

\* --------------------------------------------------- the received signal
\* How many notifications one run makes
MaxNotes == 3

\* The signals default_signal_handling_scope installs the handler for
HandledSignals == {SIGTERM, SIGINT, SIGQUIT, SIGHUP}

\* The numbers the program itself passes to notify_received_signal(): 0, a
\* handled signal, or a number with no exception class of its own
NotifyArgs == {0, SIGINT, SIGTERM, 10}

NoException == [class |-> "none", _signal_number |-> 0]
NoQuery == [op |-> "none", ret |-> 0, exc |-> NoException]

\* notify_received_signal(signum): the value S_received_signal holds after
\* S_received_signal = static_cast<std::sig_atomic_t>(signum)
notify_received_signal_KeepsFirst(stored, signum) == IF stored # 0 THEN stored ELSE signum

notify_received_signal(stored, signum) == signum

\* received_signal(): return S_received_signal
received_signal(stored) == stored

\* The number given to the most recent notify_received_signal(), 0 if none
most_recent_note(notes) == IF notes = << >> THEN 0 ELSE notes[Len(notes)]

SignalIdle ==
    /\ S_received_signal = 0
    /\ sig_pc = "idle"
    /\ sig_notes = << >>
    /\ sig_last = NoQuery

SignalInit == SignalIdle

\* The program calls notify_received_signal(signum)
NotifyReceivedSignal(signum) ==
    /\ sig_pc = "idle"
    /\ Len(sig_notes) < MaxNotes
    /\ S_received_signal' = notify_received_signal(S_received_signal, signum)
    /\ sig_notes' = Append(sig_notes, signum)
    /\ UNCHANGED <<sig_pc, sig_last>>
    /\ UNCHANGED nonSigVars

\* A handled signal is delivered: the handler installed by signal_handling_scope
\* is notify_received_signal itself, and it runs between any two steps of the
\* program, also between the two reads of throw_if_signalled()
SignalDelivered(signum) ==
    /\ Len(sig_notes) < MaxNotes
    /\ S_received_signal' = notify_received_signal(S_received_signal, signum)
    /\ sig_notes' = Append(sig_notes, signum)
    /\ UNCHANGED <<sig_pc, sig_last>>
    /\ UNCHANGED nonSigVars

\* reset_signal() is notify_received_signal(0)
ResetSignal ==
    /\ sig_pc = "idle"
    /\ Len(sig_notes) < MaxNotes
    /\ S_received_signal' = notify_received_signal(S_received_signal, 0)
    /\ sig_notes' = Append(sig_notes, 0)
    /\ UNCHANGED <<sig_pc, sig_last>>
    /\ UNCHANGED nonSigVars

\* The program calls received_signal()
ReceivedSignal ==
    /\ sig_pc = "idle"
    /\ sig_last' = [op |-> "received_signal",
                    ret |-> received_signal(S_received_signal),
                    exc |-> NoException]
    /\ UNCHANGED <<S_received_signal, sig_pc, sig_notes>>
    /\ UNCHANGED nonSigVars

\* throw_if_signalled(), the test: if (received_signal() != 0)
ThrowIfSignalledTest ==
    /\ sig_pc = "idle"
    /\ IF received_signal(S_received_signal) # 0
       THEN /\ sig_pc' = "tested"
            /\ sig_last' = [op |-> "throw_if_signalled", ret |-> 0, exc |-> NoException]
       ELSE /\ sig_pc' = "idle"
            /\ sig_last' = [op |-> "returned", ret |-> 0, exc |-> NoException]
    /\ UNCHANGED <<S_received_signal, sig_notes>>
    /\ UNCHANGED nonSigVars

\* throw_if_signalled(), the throw: throw_for_signal(received_signal())
ThrowIfSignalledThrow ==
    /\ sig_pc = "tested"
    /\ sig_pc' = "idle"
    /\ sig_last' = [op |-> "thrown", ret |-> 0,
                    exc |-> throw_for_signal(received_signal(S_received_signal))]
    /\ UNCHANGED <<S_received_signal, sig_notes>>
    /\ UNCHANGED nonSigVars

SignalNext ==
    \/ \E signum \in NotifyArgs : NotifyReceivedSignal(signum)
    \/ \E signum \in HandledSignals : SignalDelivered(signum)
    \/ ResetSignal
    \/ ReceivedSignal
    \/ ThrowIfSignalledTest
    \/ ThrowIfSignalledThrow

\* ---------------------------------------------------------------- one pipe
MaxPipeBytes == 3  \* bytes written to the pipe in all
MaxCount == 3      \* the largest count given to read(count)

PipeWrites == SeqsUpTo(Bytes, 2)
NoPipeOp == [op |-> "none", count |-> 0, ret |-> << >>]

\* ::read(fd, buf, count) on the pipe: the number of bytes it returns. With
\* nothing buffered it blocks while a writer is open (the caller of this
\* operator handles that) and returns 0 at end-of-file; count == 0 returns 0
posix_read(count, buffered) == Min(count, Len(buffered))

\* handle_io_stream::do_read_into / do_write: if (n == 0) close()
closes_on_zero(n, state) == IF n = 0 THEN "closed" ELSE state

PipeIdle ==
    /\ p_reader = "closed"
    /\ p_writer = "closed"
    /\ p_buf = << >>
    /\ p_wrote = << >>
    /\ p_got = << >>
    /\ p_last = NoPipeOp
    /\ p_fault = "none"

\* create_pipe(): ::pipe(p), both ends open, nothing buffered
PipeInit ==
    /\ p_reader = "open"
    /\ p_writer = "open"
    /\ p_buf = << >>
    /\ p_wrote = << >>
    /\ p_got = << >>
    /\ p_last = NoPipeOp
    /\ p_fault = "none"

\* pipe.writer.write(buf)
PipeWrite(buf) ==
    /\ p_fault = "none"
    /\ Len(p_wrote) + Len(buf) <= MaxPipeBytes
    /\ IF p_writer = "closed"
       THEN /\ p_fault' = "assert"
            /\ p_last' = [op |-> "write", count |-> Len(buf), ret |-> << >>]
            /\ UNCHANGED <<p_reader, p_writer, p_buf, p_wrote, p_got>>
       ELSE IF p_reader = "closed"
       THEN /\ p_fault' \in {"raise", "SIGPIPE"}
            /\ p_last' = [op |-> "write", count |-> Len(buf), ret |-> << >>]
            /\ UNCHANGED <<p_reader, p_writer, p_buf, p_wrote, p_got>>
       ELSE /\ p_buf' = p_buf \o buf
            /\ p_wrote' = p_wrote \o buf
            /\ p_writer' = closes_on_zero(Len(buf), p_writer)
            /\ p_last' = [op |-> "write", count |-> Len(buf), ret |-> << >>]
            /\ UNCHANGED <<p_reader, p_got, p_fault>>
    /\ UNCHANGED nonPipeVars

\* pipe.writer.close()
PipeCloseWriter ==
    /\ p_fault = "none"
    /\ p_writer = "open"
    /\ p_writer' = "closed"
    /\ p_last' = [op |-> "close", count |-> 0, ret |-> << >>]
    /\ UNCHANGED <<p_reader, p_buf, p_wrote, p_got, p_fault>>
    /\ UNCHANGED nonPipeVars

\* pipe.reader.read(count): ret.resize(count); nread = read_into(ret);
\* ret.resize(nread). The call blocks while the pipe is empty, the writer is
\* open and count is not 0
PipeRead(count) ==
    /\ p_fault = "none"
    /\ IF p_reader = "closed"
       THEN /\ p_fault' = "assert"
            /\ p_last' = [op |-> "read", count |-> count, ret |-> << >>]
            /\ UNCHANGED <<p_reader, p_writer, p_buf, p_wrote, p_got>>
       ELSE /\ (p_buf = << >> /\ count > 0) => p_writer = "closed"
            /\ LET nread == posix_read(count, p_buf)
               IN /\ p_last' = [op |-> "read", count |-> count,
                                ret |-> SubSeq(p_buf, 1, nread)]
                  /\ p_got' = p_got \o SubSeq(p_buf, 1, nread)
                  /\ p_buf' = SubSeq(p_buf, nread + 1, Len(p_buf))
                  /\ p_reader' = closes_on_zero(nread, p_reader)
            /\ UNCHANGED <<p_writer, p_wrote, p_fault>>
    /\ UNCHANGED nonPipeVars

PipeNext ==
    \/ \E buf \in PipeWrites : PipeWrite(buf)
    \/ PipeCloseWriter
    \/ \E count \in 0..MaxCount : PipeRead(count)

FileIdle ==
    /\ f_pc = "init"
    /\ fs_file = [exists |-> FALSE, data |-> << >>]
    /\ f_stdout = [usable |-> FALSE, offset |-> 0]
    /\ f_written = << >>
    /\ f_pre = [exists |-> FALSE, data |-> << >>]

QuoteIdle ==
    /\ q_pc = "args"
    /\ q_args = << >>
    /\ q_line = << >>
    /\ q_argv = << >>

vars == <<lifeVars, ioVars, fdVars, fileVars, quoteVars, conVars, launchVars, sigVars, pipeVars>>

Init == LifeInit /\ IOIdle /\ FdInit /\ FileIdle /\ QuoteIdle /\ ConIdle /\ LaunchIdle /\ SignalIdle /\ PipeIdle
Next == LifeNext
Spec == Init /\ [][Next]_vars
SpecSig == Init /\ [][SigNext]_vars

InitIO == LifeInit /\ IOInit /\ FdInit /\ FileIdle /\ QuoteIdle /\ ConIdle /\ LaunchIdle /\ SignalIdle /\ PipeIdle
SpecIO == InitIO /\ [][IONext]_vars

InitFile == LifeInit /\ IOIdle /\ FdInit /\ FileInit /\ QuoteIdle /\ ConIdle /\ LaunchIdle /\ SignalIdle /\ PipeIdle
SpecFile == InitFile /\ [][FileNext]_vars

InitQuote == LifeInit /\ IOIdle /\ FdInit /\ FileIdle /\ QuoteInit /\ ConIdle /\ LaunchIdle /\ SignalIdle /\ PipeIdle
SpecQuote == InitQuote /\ [][QuoteNext]_vars

InitCon == LifeIdle /\ IOIdle /\ FdInit /\ FileIdle /\ QuoteIdle /\ ConInit /\ LaunchIdle /\ SignalIdle /\ PipeIdle
SpecCon == InitCon /\ [][ConNext]_vars

InitLaunch == LifeInit /\ IOIdle /\ FdInit /\ FileIdle /\ QuoteIdle /\ ConIdle /\ LaunchInit /\ SignalIdle /\ PipeIdle
SpecLaunch == InitLaunch /\ [][LaunchNext]_vars

InitSignal == LifeIdle /\ IOIdle /\ FdInit /\ FileIdle /\ QuoteIdle /\ ConIdle /\ LaunchIdle /\ SignalInit /\ PipeIdle
SpecSignal == InitSignal /\ [][SignalNext]_vars

InitPipe == LifeIdle /\ IOIdle /\ FdInit /\ FileIdle /\ QuoteIdle /\ ConIdle /\ LaunchIdle /\ SignalIdle /\ PipeInit
SpecPipe == InitPipe /\ [][PipeNext]_vars

InitFd == LifeIdle /\ IOIdle /\ FdInit /\ FileIdle /\ QuoteIdle /\ ConIdle /\ LaunchIdle /\ SignalIdle /\ PipeIdle
SpecFd == InitFd /\ [][FdNext]_vars


\* ---------------------------------------------------------------- claims
\* The exit status a kernel termination record stands for
TrueStatus(k) ==
    IF k.si_code \in {"CLD_KILLED", "CLD_DUMPED"}
    THEN [exit_code |-> 0, signal_number |-> k.si_status]
    ELSE [exit_code |-> k.si_status, signal_number |-> 0]

\* C1: destroying, or move-assigning over, a handle that owns a child and was
\* neither joined nor detached is a fatal contract violation; destroying or
\* assigning over a joined, detached or moved-from handle never is.
C1_DestroyUnjoinedIsFatal ==
    last.op \in {"destroy", "move_assign"} =>
        /\ last.pre_life = "running" => (last.res = "terminate" /\ fault = "terminate_unjoined")
        /\ last.pre_life \in {"joined", "detached", "moved_from"} => (last.res = "ok" /\ fault = "none")

C1_Witness ==
    /\ last.op = "destroy" /\ last.pre_life = "running" /\ last.res = "terminate"
    /\ \E p \in Impls : kproc[p].st = "running"

\* C2: a join() on a handle whose first join() returned is rejected by the
\* expects-assertion, no second wait is issued on the process id, and the
\* stored exit result stays the one the first join() returned.
C2_JoinAtMostOnce ==
    /\ \A p \in Impls : joins[p] <= 1
    /\ (last.op = "join" /\ last.pre_life = "joined") => (last.res = "assert" /\ fault = "expects")
    /\ \A h \in Slots :
          (life[h] = "joined" /\ subs[h]._impl # 0) =>
              subs[h]._exit_result = joinRet[impl_pid[subs[h]._impl]]

C2_Witness ==
    /\ last.op = "join" /\ last.pre_life = "joined" /\ last.res = "assert"
    /\ \E p \in Impls : joins[p] = 1 /\ joinRet[p].has

\* C3: is_running() never reaps: a child's status is consumed only by the join()
\* that returns it, and what join() returns is the status the child ended with.
C3_IsRunningDoesNotReap ==
    \A p \in Impls :
        /\ kproc[p].st = "reaped" => joinRet[p].has
        /\ joinRet[p].has =>
              /\ joinRet[p].exit_code = TrueStatus(kproc[p]).exit_code
              /\ joinRet[p].signal_number = TrueStatus(kproc[p]).signal_number
        /\ (last.op = "is_running" /\ last.pre_life = "running" /\ ~joinRet[p].has
              /\ kproc[p].st # "none") => kproc[p].st \in {"running", "zombie"}

\* is_running() answered false for an exited, un-joined child that is still there
\* to be waited for
C3_Witness ==
    /\ last.op = "is_running" /\ last.res = "false" /\ last.pre_life = "running"
    /\ \E p \in Impls : kproc[p].st = "zombie" /\ kproc[p].si_status = 42 /\ ~joinRet[p].has

StepErrno(step, exe) ==
    CASE step = "chdir" -> "ENOENT"
      [] step = "exec" -> (IF exe = "NULL" THEN "EFAULT" ELSE IF exe \in NotExecutable THEN "EACCES" ELSE "ENOENT")
      [] OTHER -> "EBADF"

\* C5: on POSIX spawn() returns a handle only when the child's dup2, chdir and
\* exec all succeeded (the error pipe reads empty only after a successful exec);
\* when a step fails spawn() raises with the errno of the first failing step.
C5_HandleOnlyAfterExec ==
    (platform = "posix" /\ last.op = "spawn") =>
        /\ last.res = "handle" => last.child = "exec"
        /\ last.child = "failed" =>
              (last.res = "raise" /\ last.err = StepErrno(last.step, last.exe))

\* C6: when the process-creation call fails, spawn() raises with the OS error
\* and returns no handle; no handle holds an invalid process id.
C6_CreationFailureRaises ==
    /\ (last.op = "spawn" /\ last.step = "fork") =>
          (last.res = "raise" /\ last.err \in {"EAGAIN", "ERROR_NOT_ENOUGH_MEMORY"})
    /\ \A i \in Impls : impl_live[i] => impl_pid[i] \in Impls

\* C7: every exit result join() stores has at most one of exit_code and
\* signal_number non-zero: death by signal gives the signal and exit_code 0, a
\* normal exit gives the code and signal_number 0, the Windows backend never
\* reports a signal; successful() holds exactly when both are zero.
C7_ExitStatusExclusive ==
    /\ \A h \in Slots :
          LET e == subs[h]._exit_result
          IN  e.has =>
                /\ ~(e.exit_code # 0 /\ e.signal_number # 0)
                /\ platform = "win" => e.signal_number = 0
                /\ successful(e) <=> (e.exit_code = 0 /\ e.signal_number = 0)
    /\ \A p \in Impls :
          joinRet[p].has =>
                /\ kproc[p].si_code \in {"CLD_KILLED", "CLD_DUMPED"} =>
                      (joinRet[p].signal_number = kproc[p].si_status /\ joinRet[p].exit_code = 0)
                /\ kproc[p].si_code = "CLD_EXITED" =>
                      (joinRet[p].exit_code = kproc[p].si_status /\ joinRet[p].signal_number = 0)

C7_Witness ==
    \E h \in Slots :
        /\ subs[h]._exit_result.has
        /\ subs[h]._exit_result.signal_number = 15
        /\ subs[h]._exit_result.exit_code = 0
        /\ \E p \in Impls : kproc[p].si_code = "CLD_DUMPED"

\* C8: the bytes read_output() has accumulated for a stream, followed by the
\* bytes still in that stream's pipe, are exactly the bytes the child wrote to
\* it, in order; when read_output() returns, stdout_ and stderr_ are the whole
\* of what the child wrote to each stream and the child has closed both.
C8_ReadOutputExact ==
    /\ ret.stdout_ \o pbuf["out"] = written["out"]
    /\ ret.stderr_ \o pbuf["err"] = written["err"]
    /\ io_pc = "returned" =>
          /\ ret.stdout_ = written["out"]
          /\ ret.stderr_ = written["err"]
          /\ \A x \in Streams : ~wr_open[x] /\ ~rd_open[x]

C8_Witness ==
    /\ io_pc = "returned"
    /\ written["out"] = <<"a", "b">> /\ written["err"] = <<"b">>
    /\ ret.stdout_ = <<"a", "b">> /\ ret.stderr_ = <<"b">>

\* C9: with both streams piped, read_output() returns for every child that
\* closes both streams: it never ends, or stays blocked, short of returning.
C9_ReadOutputReturns ==
    io_fn = "read_output" =>
        /\ io_pc \notin {"aborted", "raised"}
        /\ (io_pc \in {"poll", "loop"} /\ \A x \in Streams : ~wr_open[x]) =>
              ENABLED (\/ HandleFd \/ WinReadPipe
                       \/ \E w \in WaitResults : WinWait(w)
                       \/ \E eof_in \in BOOLEAN : Poll(eof_in))

\* C10: with stdin piped, what the child has read, followed by what is still in
\* the pipe, is exactly what write_input() was given, in order; once the parent
\* has closed its write end no process holds that end, so the child reaches
\* end-of-file, and a child that exited has echoed the whole input.
C10_StdinDelivered ==
    \A k \in Children :
        (fd_opts[k].stdin_ = "pipe" /\ fd_child[k] \in {"running", "exited"}) =>
            /\ got[k] \o stdin_buf[k] = sent[k]
            /\ echoed[k] = got[k]
            /\ ~has_stdin(fd_held, k) => holders(fd_held, k, "stdin", "w") = {}
            /\ fd_child[k] = "exited" => (echoed[k] = sent[k] /\ ~has_stdin(fd_held, k))

C10_Witness ==
    \E k \in Children, j \in Children :
        /\ k < j
        /\ fd_opts[k].stdin_ = "pipe"
        /\ fd_child[k] = "exited" /\ fd_child[j] = "running"
        /\ sent[k] = <<"a", "b">> /\ echoed[k] = <<"a", "b">>

\* C11: on POSIX, when send_signal(n) returned for a child that was running,
\* the join() of that child returns signal_number = n and exit_code = 0.
C11_SignalledChildJoinsWithSignal ==
    \A p \in Impls :
        (platform = "posix" /\ signalled[p] # 0 /\ joinRet[p].has) =>
            (joinRet[p].signal_number = signalled[p] /\ joinRet[p].exit_code = 0)

C11_Witness ==
    /\ platform = "posix"
    /\ last.op = "join" /\ last.res = "ok"
    /\ \E p \in Impls : signalled[p] = 15 /\ joinRet[p].has /\ joinRet[p].signal_number = 15

\* C12: a handle that join() returned for is joined, its child has terminated,
\* exit_result() holds the code the child exited with, and is_running() on it
\* answers false without a fault.
C12_JoinedAfterTermination ==
    /\ \A h \in Slots :
          (life[h] = "joined" /\ subs[h]._impl # 0) =>
              LET pid == impl_pid[subs[h]._impl]
              IN  /\ is_joined(subs[h])
                  /\ pid \in Impls
                  /\ kproc[pid].st \in {"zombie", "reaped"}
                  /\ kproc[pid].si_code = "CLD_EXITED" =>
                        subs[h]._exit_result.exit_code = kproc[pid].si_status
    /\ (last.op = "join" /\ last.res = "ok") =>
          \E h \in Slots : life[h] = "joined" /\ is_joined(subs[h])
    /\ (last.op = "is_running" /\ last.pre_life = "joined") =>
          (last.res = "false" /\ fault = "none")

C12_Witness ==
    /\ last.op = "is_running" /\ last.pre_life = "joined" /\ last.res = "false"
    /\ \E h \in Slots : life[h] = "joined" /\ subs[h]._exit_result.exit_code = 42

\* C13: the endpoints the for loop of _do_read_output still has to handle are
\* open ones, and a read_output_into() made while neither endpoint is open
\* goes through no OS wait: it does not end in an error of the wait call.
C13_ClosedEndpointsLeftAlone ==
    /\ io_pc = "loop" =>
          \A i \in DOMAIN poll_fds : i >= pfd_i => rd_open[poll_fds[i].fd]
    /\ ~(io_pc = "raised" /\ io_fn = "read_output_into" /\ \A x \in Streams : ~rd_open[x])

\* C14: every pipe end the parent keeps in a handle is close-on-exec, and no
\* child holds an end of a pipe that was made for another child.
C14_RetainedEndsNotInherited ==
    /\ \A e \in fd_held[0] : e.at = "imp" => e.cloexec
    /\ \A j \in Children : \A e \in fd_held[j] : e.k = j

\* C15: spawn() with stdout redirected to a path succeeds and leaves the file
\* existing; from then on, and after the child exits, the file's content is
\* exactly what the child wrote to stdout, nothing of the earlier content.
C15_RedirectedFileHoldsOutput ==
    /\ f_pc # "raised"
    /\ f_pc \in {"running", "exited"} => (fs_file.exists /\ fs_file.data = f_written)

\* C17: an argument needs no quoting exactly when all its characters are
\* alphanumeric or among @%-+=:,./|_ ; the command line is the arguments
\* joined by single spaces, a safe argument as it is and an unsafe one
\* wrapped in double quotes with every backslash and double quote preceded
\* by a backslash.
C17_UnsafeArgumentsAreWrapped ==
    LET Safe(a) == \A i \in DOMAIN a :
                       a[i] \in {"a"} \cup {"@", "%", "-", "+", "=", ":", ",", ".", "/", "|", "_"}
        RECURSIVE Escaped(_)
        Escaped(a) ==
            IF a = << >> THEN << >>
            ELSE (IF Head(a) \in {"\\", "\""} THEN <<"\\", Head(a)>> ELSE <<Head(a)>>)
                 \o Escaped(Tail(a))
        Documented(a) == IF Safe(a) THEN a ELSE (<<"\"">> \o Escaped(a)) \o <<"\"">>
        RECURSIVE Joined(_)
        Joined(r) ==
            IF Len(r) = 1 THEN Documented(r[1])
            ELSE (Documented(Head(r)) \o <<" ">>) \o Joined(Tail(r))
    IN q_pc # "args" =>
          /\ \A i \in DOMAIN q_args : argv_arg_needs_quoting(q_args[i]) = ~Safe(q_args[i])
          /\ q_line = Joined(q_args)

\* C16: the argument vector the started program's runtime splits the quoted
\* command line into is the argument list that was given.
C16_QuoteSplitRoundTrip ==
    q_pc = "split" => q_argv = q_args

\* C18: spawn() with an empty command and no explicit program raises an
\* invalid-argument error to its caller, and has created no process and no
\* handle and attempted no launch step when it does.
C18_EmptyCommandRaisesInvalidArgument ==
    (last.op = "spawn" /\ last.exe = "NULL") =>
        /\ last.res = "raise"
        /\ errc(last.err) = "invalid_argument"
        /\ fault = "none"
        /\ last.step = "none" /\ last.child = "none"
        /\ kproc[nspawn] = NoProc
        /\ \A h \in Slots : ~(subs[h].alive /\ subs[h]._impl = nspawn)

\* C19: join() on a handle that may be joined returns the exit result whatever
\* the child's exit code or terminating signal is; throw_if_error() on a
\* joined handle's result raises subprocess_failure exactly when the result is
\* not successful (non-zero exit code or a signal), the exception carries that
\* exit code and signal number, and otherwise nothing is raised.
C19_FailureOnlyOnRequest ==
    [][\A h \in Slots :
        /\ (Join(h) /\ join_expects(subs[h]) /\ impl_pid[subs[h]._impl] \in DOMAIN kproc) =>
              LET z == kproc[impl_pid[subs[h]._impl]]
              IN  z.st = "zombie" =>
                    /\ last'.res = "ok" /\ fault' = "none"
                    /\ subs'[h]._exit_result =
                          subprocess_exit(TrueStatus(z).exit_code, TrueStatus(z).signal_number)
        /\ ThrowIfError(h) =>
              LET e == subs[h]._exit_result
              IN  /\ last'.res = (IF e.exit_code # 0 \/ e.signal_number # 0 THEN "raise" ELSE "ok")
                  /\ last'.res = "raise" =>
                        /\ last'.failure._exit_code = e.exit_code
                        /\ last'.failure._signal_number = e.signal_number
                  /\ fault' = "none" /\ subs' = subs]_vars

C19_Witness ==
    /\ last.op = "throw_if_error" /\ last.res = "raise"
    /\ last.failure._signal_number = 15 /\ last.failure._exit_code = 0
    /\ \E h \in Slots : subs[h].alive /\ subs[h]._exit_result = subprocess_exit(0, 15)

\* C20: try_join() on an attached handle ends in no fault: it returns nullopt
\* and leaves the handle un-joined while the child runs, returns the status of
\* a child that has exited, and returns the stored status of a handle that was
\* joined before.
C20_TryJoinInEveryState ==
    (last.op = "try_join" /\ last.pre_life \in {"running", "joined"}) =>
        /\ fault = "none"
        /\ last.res \in {"nullopt", "ok"}
        /\ last.pre_life = "joined" => last.res = "ok"

\* C21: detach() can be taken on any live handle whatever its child does; it
\* leaves every child process as it was (nothing is waited for or reaped),
\* deletes the impl with the pipe ends it holds, leaves the handle without an
\* impl so that destroying it passes, and raises no fault, also on a handle
\* that is joined or detached already.
C21_DetachReleasesWithoutWaiting ==
    /\ [](\A h \in Slots : (fault = "none" /\ subs[h].alive) => ENABLED Detach(h))
    /\ [][\A h \in Slots : Detach(h) =>
            /\ kproc' = kproc /\ joins' = joins
            /\ fault' = "none"
            /\ subs'[h]._impl = 0
            /\ subs[h]._impl \in DOMAIN impl_live => ~impl_live'[subs[h]._impl]
            /\ _destroy(subs'[h]).ok
            /\ subs'[h]._exit_result = subs[h]._exit_result]_vars
    /\ []((last.op = "destroy" /\ last.pre_life = "detached") => last.res = "ok")

C21_Witness ==
    /\ last.op = "detach" /\ last.pre_life = "running"
    /\ \E p \in Impls : kproc[p].st = "running" /\ impl_pid[p] = p /\ ~impl_live[p]

\* C22: a join() whose wait is interrupted by a signal delivered to the caller
\* raises a signal_exception and returns no exit status; the handle stays
\* un-joined with no exit result and the child is not reaped; a join() made
\* later on returns the status the child really ended with.
C22_InterruptedJoinCanBeRetried ==
    /\ [][\A h \in Slots, received \in ReceivedSignals :
            JoinInterrupted(h, received) =>
                /\ last'.res = "raise"
                /\ last'.err \in signal_exception_classes
                /\ last'.failure._signal_number = received
                /\ ~is_joined(subs'[h]) /\ life'[h] = life[h]
                /\ kproc' = kproc /\ joins' = joins /\ joinRet' = joinRet
                /\ fault' = "none"]_vars
    /\ [][\A h \in Slots :
            (/\ Join(h) /\ last'.res = "ok"
             /\ impl_pid[subs[h]._impl] \in Impls /\ interrupted[impl_pid[subs[h]._impl]]) =>
                LET z == kproc[impl_pid[subs[h]._impl]]
                IN  /\ z.st = "zombie"
                    /\ is_joined(subs'[h])
                    /\ subs'[h]._exit_result =
                          subprocess_exit(TrueStatus(z).exit_code, TrueStatus(z).signal_number)]_vars

C22_Witness ==
    /\ last.op = "child"
    /\ \E h \in Slots :
          /\ subs[h].alive /\ subs[h]._impl # 0 /\ ~is_joined(subs[h])
          /\ impl_pid[subs[h]._impl] \in Impls /\ interrupted[impl_pid[subs[h]._impl]]
          /\ kproc[impl_pid[subs[h]._impl]] =
                [st |-> "zombie", si_code |-> "CLD_EXITED", si_status |-> 42]
          /\ ENABLED Join(h)

\* C23: on POSIX, send_signal() on a joined handle fails its precondition and
\* changes no process; a kill() that send_signal() made named one child that
\* had not been reaped.
C23_SignalOnlyToOwnUnreapedChild ==
    /\ (last.op = "send_signal" /\ last.pre_life = "joined") =>
          (last.res = "assert" /\ fault = "expects")
    /\ (last.op = "send_signal" /\ last.res = "ok") =>
          (last.kill.pid \in Impls /\ last.kill.named \in {"running", "zombie"})

\* C24: a read_output_into() with a timeout of zero or more is never left
\* waiting (some step of it can always be taken); a call that returns straight
\* from its wait while an endpoint is open has a timeout of zero or more and
\* leaves both buffers and both endpoints as they were; a call with a negative
\* timeout returns, while an endpoint is open, only having read bytes or found
\* an end-of-file.
C24_TimeoutBoundsTheWait ==
    /\ []((io_fn = "read_output_into" /\ io_timeout >= 0 /\ io_pc \in {"poll", "loop"})
             => ENABLED (\/ HandleFd \/ WinReadPipe
                         \/ \E w \in WaitResults : WinWait(w)
                         \/ \E eof_in \in BOOLEAN : Poll(eof_in)))
    /\ [][(/\ io_fn = "read_output_into"
           /\ \E x \in Streams : rd_open[x]
           /\ io_pc \in {"poll", "loop"} /\ io_pc' = "idle") =>
             /\ io_pc = "poll" => (ret' = ret /\ rd_open' = rd_open /\ io_timeout >= 0)
             /\ io_timeout < 0 => (ret' # ret \/ rd_open' # rd_open)]_vars

\* C25: with two threads spawning at once, no child holds an end of a pipe that
\* was made for the other spawn; a spawn() can return once its own child has
\* exec'ed; and once its own child has exited nothing holds the write end of
\* the child's stdout pipe but the spawn() that made it.
C25_ConcurrentSpawnsAreDisjoint ==
    /\ \A t \in Threads : \A e \in c_held[t] : c_child[t] = "running" => e.k = t
    /\ \A t \in Threads :
          (c_pc[t] = "forked" /\ c_child[t] \in {"running", "exited"}) => ENABLED ConReturn(t)
    /\ \A t \in Threads :
          (c_pc[t] = "returned" /\ c_child[t] = "exited") =>
              con_holders(c_held, t, "stdout", "w") = {}

\* C26: no two live handles hold the same impl; a move that went through left
\* its source without impl and without exit result; and a move-construction
\* ends in no contract violation.
C26_MoveTransfersOwnership ==
    /\ \A g \in Slots, h \in Slots :
          (g # h /\ subs[g].alive /\ subs[h].alive /\ subs[g]._impl # 0) =>
              subs[g]._impl # subs[h]._impl
    /\ (last.op \in {"move_assign", "move_construct"} /\ last.res = "ok") =>
          \E src \in Slots : /\ life[src] = "moved_from"
                             /\ subs[src]._impl = 0 /\ ~subs[src]._exit_result.has
    /\ last.op = "move_construct" => (last.res = "ok" /\ fault = "none")

\* C27: after a spawn that returned a handle, has_stdin(), has_stdout() and
\* has_stderr() are each true exactly when that stream's option is a pipe.
C27_EndpointsExactlyForPipes ==
    l_pc = "spawned" =>
        /\ l_parent.has_stdin <=> (l_opts.stdin_ = "pipe")
        /\ l_parent.has_stdout <=> (l_opts.stdout_ = "pipe")
        /\ l_parent.has_stderr <=> (l_opts.stderr_ = "pipe")

\* C28: the file the child executes is the explicit program when one is given
\* and the first command element otherwise; the child's argument vector is the
\* command in both cases; and without env_path_lookup no PATH search is made.
C28_ProgramAndArgv ==
    l_pc = "spawned" =>
        /\ l_child.file = (IF l_opts.program.has THEN l_opts.program.path
                           ELSE l_opts.command[1])
        /\ l_child.argv = l_opts.command
        /\ ~l_opts.env_path_lookup => ~l_child.path_search

\* C29: with stderr merged into stdout, spawn succeeds for every stdout mode,
\* the child's stderr has the destination of its stdout, the handle has no
\* stderr endpoint, and with stdout piped every byte the child writes to
\* stderr arrives in the stdout buffer while the stderr buffer stays empty.
C29_StderrFollowsStdout ==
    (l_opts.stderr_ = "to_stdout" /\ l_opts.command # << >>) =>
        /\ l_pc # "raised"
        /\ l_pc = "spawned" =>
              /\ l_child.fd2 = l_child.fd1
              /\ ~l_parent.has_stderr
              /\ l_out.stderr_ = << >>
              /\ l_opts.stdout_ # "pipe" => l_out.stdout_ = << >>

\* C30: the child leads a process group of its own exactly when
\* set_group_leader was asked for.
C30_GroupLeaderIffAsked ==
    l_pc = "spawned" => (l_child.group_leader <=> l_opts.set_group_leader)

C32_NotReadyEndpointUntouched ==
    /\ ~(/\ platform = "posix" /\ io_pc = "aborted"
         /\ \E i \in DOMAIN poll_fds :
               "POLLIN" \notin poll_fds[i].revents /\ "POLLHUP" \notin poll_fds[i].revents)
    /\ (/\ platform = "win" /\ io_pc = "loop" /\ Len(poll_fds) = 2
         /\ \E i \in DOMAIN poll_fds :
               pbuf[poll_fds[i].fd] # << >> \/ ~wr_open[poll_fds[i].fd]) =>
          (pbuf[poll_fds[pfd_i].fd] # << >> \/ ~wr_open[poll_fds[pfd_i].fd])

\* C33: join() changes no endpoint, no pipe content and no buffer; and once
\* join() has returned, reading an endpoint that is open ends in no error,
\* and a read_output() that returns has delivered everything the child wrote and
\* retired both endpoints.
C33_OutputSurvivesJoin ==
    /\ [][(\E eintr \in BOOLEAN : IOJoin(eintr)) =>
            (rd_open' = rd_open /\ pbuf' = pbuf /\ ret' = ret)]_vars
    /\ []((io_joined /\ \E x \in Streams : rd_open[x]) =>
            io_pc \notin {"raised", "aborted"})
    /\ []((io_joined /\ io_pc = "returned") =>
            /\ ret.stdout_ = written["out"] /\ ret.stderr_ = written["err"]
            /\ \A x \in Streams : ~rd_open[x])

\* C36: no descriptor of the handle has close() issued on it more than once.
C36_DescriptorClosedOnce ==
    \A x \in Streams : fd_closes[x] <= 1

\* C38: a _do_read_output whose poll() succeeded (it returned the number of
\* ready endpoints, or zero at the timeout) does not raise the interrupted
\* condition, whatever errno held before.
C38_InterruptedOnlyByOwnWait ==
    [][(\E eof_in \in BOOLEAN : Poll(eof_in)) => io_pc' # "interrupted"]_vars

\* C34: on POSIX a send_signal() to a child that has exited and has not been
\* joined returns without error and changes no process; the join() that
\* follows returns the status the child ended with, which for a child that
\* exited is its exit code with signal_number 0.
C34_SignalAfterExitChangesNothing ==
    /\ [][\A h \in Slots, signum \in Signals :
            (/\ SendSignal(h, signum) /\ ~is_joined(subs[h]) /\ subs[h]._impl # 0
             /\ impl_pid[subs[h]._impl] \in Impls
             /\ kproc[impl_pid[subs[h]._impl]].st = "zombie") =>
                (last'.res = "ok" /\ fault' = "none" /\ kproc' = kproc /\ subs' = subs)]_vars
    /\ [][\A h \in Slots :
            (/\ Join(h) /\ last'.res = "ok"
             /\ last.op = "send_signal" /\ last.res = "ok" /\ last.kill.named = "zombie"
             /\ last.kill.pid = impl_pid[subs[h]._impl]) =>
                LET z == kproc[impl_pid[subs[h]._impl]]
                IN  /\ subs'[h]._exit_result =
                          subprocess_exit(TrueStatus(z).exit_code, TrueStatus(z).signal_number)
                    /\ z.si_code = "CLD_EXITED" =>
                          subs'[h]._exit_result = subprocess_exit(z.si_status, 0)]_vars

C34_Witness ==
    /\ last.op = "send_signal" /\ last.res = "ok" /\ last.kill.named = "zombie"
    /\ \E h \in Slots :
          /\ subs[h].alive /\ subs[h]._impl # 0 /\ ~is_joined(subs[h])
          /\ last.kill.pid = impl_pid[subs[h]._impl]
          /\ kproc[last.kill.pid] = [st |-> "zombie", si_code |-> "CLD_EXITED", si_status |-> 42]
          /\ ENABLED Join(h)

\* C35: a write_input() made while has_stdin() is true, with any data, the
\* empty buffer included, leaves has_stdin() true.
C35_WriteNeverCloses ==
    [][\A k \in Children, buf \in InputBufs :
          (WriteInput(k, buf) /\ has_stdin(fd_held, k)) => has_stdin(fd_held', k)]_vars

\* C37: when the POSIX spawn() raises because its child reported a failed
\* launch step, that child has been reaped: it is not left as a terminated
\* process waiting to be waited for.
C37_FailedChildIsReaped ==
    (platform = "posix" /\ last.op = "spawn" /\ last.res = "raise" /\ last.child = "failed") =>
        kproc[nspawn].st \notin {"running", "zombie"}

\* C39: received_signal() returns the number given to the most recent
\* notify_received_signal() (0 before any and after reset_signal());
\* throw_if_signalled() throws exactly when that number is not 0, the exception
\* carries that number, and neither query changes the stored number.
C39_ReceivedSignalIsMostRecent ==
    /\ [](S_received_signal = most_recent_note(sig_notes))
    /\ [](sig_pc = "tested" => most_recent_note(sig_notes) # 0)
    /\ [][ReceivedSignal =>
             /\ sig_last'.ret = most_recent_note(sig_notes)
             /\ S_received_signal' = S_received_signal]_vars
    /\ [][ThrowIfSignalledTest =>
             /\ (sig_last'.op = "returned") <=> (most_recent_note(sig_notes) = 0)
             /\ (sig_pc' = "tested") <=> (most_recent_note(sig_notes) # 0)
             /\ S_received_signal' = S_received_signal]_vars
    /\ [][ThrowIfSignalledThrow =>
             /\ sig_last'.op = "thrown"
             /\ sig_last'.exc.class \in signal_exception_classes
             /\ sig_last'.exc._signal_number = most_recent_note(sig_notes)
             /\ sig_last'.exc._signal_number # 0
             /\ S_received_signal' = S_received_signal]_vars

C39_Witness ==
    /\ sig_last.op = "thrown"
    /\ sig_last.exc = [class |-> "sigterm_exception", _signal_number |-> SIGTERM]
    /\ S_received_signal = SIGTERM
    /\ Len(sig_notes) = 3 /\ sig_notes[1] = SIGINT /\ sig_notes[2] = 0

\* C40: what read(count) returns is at most count bytes, every byte written is
\* either returned already or still in the pipe, in write order, and bytes
\* still in the pipe can be read later: the reader stays open over them.
C40_PipeDeliversInOrder ==
    /\ p_got \o p_buf = p_wrote
    /\ p_last.op = "read" => Len(p_last.ret) <= p_last.count
    /\ p_buf # << >> => p_reader = "open"

=============================================================================
